---- MODULE Spec2Model ----
(***************************************************************************)
(* Model of microsync's synchronization engine: the persisted state file   *)
(* (.microsync.state), the live project repository, the template remote,   *)
(* and the actions sync / status / diff / drift / init stepping through    *)
(* their porcelain calls.  Every call that shells out (git, cookiecutter)  *)
(* may raise; results.wrapper re-raises everything except                  *)
(* StateFileNotFound, so a raised step ends the action without a Result.   *)
(***************************************************************************)
EXTENDS Integers, Sequences, FiniteSets, TLC

(* ------------------------------ bounds --------------------------------- *)
\* Number of commits the template remote can grow to.
MaxCommit == 3
\* Number of commits the live project history can grow to.
MaxProjCommits == 2
\* Number of switch_to scopes that can be open inside one another.
MaxDepth == 2
\* Number of switch_to scopes entered on one repository handle.
MaxScopes == 3
\* Number of patterns in a Comparison's ignore tuple.
MaxIgnore == 2
\* Length of the strings handed to subject_line and of its limit n.
MaxLen == 4

(* ------------------------------ values --------------------------------- *)
\* ref=None as passed by the CLI when --ref is not given (cli.py:123-128).
NoRef == -1
\* defaults.TEMPLATE_REF = 'HEAD'
HEAD == 0
Commits == 1..MaxCommit
Refs == {NoRef, HEAD} \cup Commits

\* Value of the single template variable `name`; "" is "not supplied".
VarValues == {"demo", "custom"}
DefaultVar == "demo"

\* The state file: `form` is "none" when there is no file, "json" when it
\* holds an encoded State, "empty" when it was opened for writing and
\* nothing was written.
NoRecord == [exists |-> FALSE, ref |-> HEAD, variables |-> "", form |-> "none"]
StateRecord(r, v) == [exists |-> TRUE, ref |-> r, variables |-> v, form |-> "json"]
TruncatedRecord == [exists |-> TRUE, ref |-> HEAD, variables |-> "", form |-> "empty"]

Files == {"a", "b"}

\* vcs.base.safe_ref: `ref or default`.
safe_ref(ref) == IF ref = NoRef THEN HEAD ELSE ref

\* Commit a fresh clone is on after `git clone; git checkout <ref>`,
\* given the remote's latest commit (git.py VersionControl.remote).
ResolveRef(ref, latest) == IF safe_ref(ref) = HEAD THEN latest ELSE safe_ref(ref)

\* Content of the template repository at a commit: version of each file,
\* 0 when the file does not exist at that commit.  Consecutive commits
\* differ in exactly one file; commit 2 adds file "b".
TemplateTree(c) == [f \in Files |-> IF f = "a" THEN (c + 1) \div 2 ELSE c \div 2]

AbsentFile == [ver |-> 0, var |-> ""]

\* cookiecutter Template.render: generate_files of the checkout with the
\* context's variables.
RenderTree(c, ctxvars) ==
    [f \in Files |-> IF TemplateTree(c)[f] = 0 THEN AbsentFile
                     ELSE [ver |-> TemplateTree(c)[f], var |-> ctxvars]]

\* unidiff Comparison.compare: full content diff first -> second.
Compare(first, second) ==
    {[file |-> f, old |-> first[f], new |-> second[f]] :
        f \in {g \in DOMAIN first : first[g] # second[g]}}

ChangeKind(old, new) ==
    IF old = AbsentFile THEN "added"
    ELSE IF new = AbsentFile THEN "removed" ELSE "modified"

\* unidiff Comparison.compare_files: --stat summary first -> second.
CompareFiles(first, second) ==
    {[file |-> f, kind |-> ChangeKind(first[f], second[f])] :
        f \in {g \in DOMAIN first : first[g] # second[g]}}

(* ------------------------------ results -------------------------------- *)
\* Text carried in a Result's stdout/stderr, by its parts.
Msg(tag, local, remote, text, files, diff) ==
    [tag |-> tag, local |-> local, remote |-> remote, text |-> text,
     files |-> files, diff |-> diff]
\* defaults.RESULT_STDOUT / RESULT_STDERR = ''
NoMsg == Msg("", 0, 0, "", {}, {})

\* results.Result(success, stdout, stderr, error)
Result(success, stdout, stderr, error) ==
    [kind |-> "result", success |-> success, stdout |-> stdout,
     stderr |-> stderr, error |-> error]
\* results.success
success(stdout) == Result(TRUE, stdout, NoMsg, "")
\* results.failure
failure(stderr) == Result(FALSE, NoMsg, stderr, "")
\* results.error
error(exc, stderr) == Result(FALSE, NoMsg, stderr, exc)
\* An exception that left the wrapped action (results.wrapper: `raise ex`).
Raised(exc) ==
    [kind |-> "raised", success |-> FALSE, stdout |-> NoMsg,
     stderr |-> NoMsg, error |-> exc]
NoResult ==
    [kind |-> "none", success |-> FALSE, stdout |-> NoMsg,
     stderr |-> NoMsg, error |-> ""]

\* `git status --porcelain` text for a working tree state, less its final
\* newline: two status columns, a space and the path.
StatusText(work) ==
    CASE work = "asHead"    -> ""
      [] work = "edited"    -> " M a"
      [] work = "patched"   -> "M  a"
      [] work = "conflict"  -> "UU a"
      [] work = "untracked" -> "?? c"

\* str.strip() of a status text: the blank first column of an unstaged
\* change goes with the final newline.
strip(text) == IF text = " M a" THEN "M a" ELSE text

\* git Repository.is_dirty: stdout = status text .strip();
\* Result(success=bool(stdout), stdout=stdout).
is_dirty(work) ==
    Result(strip(StatusText(work)) # "",
           Msg("status", 0, 0, strip(StatusText(work)), {}, {}), NoMsg, "")

\* porcelain.status.Status
Status(local, remote) == [local_ref |-> local, remote_ref |-> remote]
\* Status.same
same(st) == st.local_ref = st.remote_ref
\* Status.message: header with both refs plus the body chosen by `same`.
StatusMessage(st) ==
    Msg("status", st.local_ref, st.remote_ref,
        IF same(st) THEN "up-to-date" ELSE "out-of-date", {}, {})

(* ------------------------------- state --------------------------------- *)
VARIABLES
    tmplLatest,   \* commit id of origin/master of the template remote
    record,       \* the persisted state file of the project
    projDir,      \* what is at the project path: "absent", "file", "plain" or "repo"
    projBranch,   \* reference checked out in the live project repository
    projWork,     \* working tree + index of the live project, relative to HEAD
    projCommits,  \* number of commits in the live project's history
    op,           \* the action being run, "none" when idle
    pc,           \* position inside the running action
    loc,          \* the action's arguments and local variables
    calls,        \* calls the running action has made, in order
    result,       \* what the action returned (or that it raised)
    scratch,      \* TRUE while the action's scratch directory exists
    start,        \* persistent state as it was when the action started
    lastStatus,   \* Result of the previous completed status run and what it saw
    prev,         \* the command that just brought the project to the template's latest
    sw,           \* a Repository handle and the switch_to scopes open on it
    serde,        \* a State or state-file content being encoded / decoded
    call          \* a library function applied on its own: arguments and outcome

vars == <<tmplLatest, record, projDir, projBranch, projWork, projCommits,
          op, pc, loc, calls, result, scratch, start, lastStatus, prev,
          sw, serde, call>>

mainVars == <<tmplLatest, record, projDir, projBranch, projWork, projCommits,
              op, pc, loc, calls, result, scratch, start, lastStatus, prev>>

projVars == <<projDir, projBranch, projWork, projCommits>>
envVars == <<tmplLatest, record, projDir, projBranch, projWork, projCommits,
            sw, serde, call>>
opVars == <<op, pc, loc, calls, result, scratch, start, lastStatus>>

NoContext == [id |-> 0, variables |-> ""]
NoClone == [commit |-> 0, remote |-> 0]
NoStatus == Status(0, 0)

NoLoc ==
    [ref |-> NoRef, interactive |-> FALSE, force |-> FALSE,
     state |-> NoRecord, dirty |-> NoResult,
     current |-> NoClone, target |-> NoClone, status |-> NoStatus,
     context |-> NoContext, contexts |-> 0,
     renders |-> <<>>, compared |-> <<>>, diff |-> {}, files |-> {},
     patch |-> ""]

Snapshot == [record |-> record, dir |-> projDir, branch |-> projBranch,
             work |-> projWork, commits |-> projCommits]

NoSnapshot == [record |-> NoRecord, dir |-> "absent", branch |-> "master",
               work |-> "asHead", commits |-> 0]

NoLastStatus == [valid |-> FALSE, result |-> NoResult, latest |-> 0, record |-> NoRecord]

\* No command has just brought the project to the template's latest commit.
NoPrev == "none"

\* No repository handle is in use.
NoSwitch == [head |-> 0, attached |-> FALSE, stack |-> <<>>, raising |-> FALSE,
             base |-> 0, scopes |-> 0, left |-> <<>>]

\* Nothing is being encoded or decoded.
NoSerde == [step |-> "none"]

\* No function is being applied.
NoCall == [step |-> "none"]

MainInit ==
    /\ tmplLatest = 1
    /\ record = NoRecord
    /\ projDir \in {"absent", "repo"}
    /\ projBranch = "master"
    /\ projWork = "asHead"
    /\ projCommits = 1
    /\ op = "none"
    /\ pc = "idle"
    /\ loc = NoLoc
    /\ calls = <<>>
    /\ result = NoResult
    /\ scratch = FALSE
    /\ start = NoSnapshot
    /\ lastStatus = NoLastStatus
    /\ prev = NoPrev

Init ==
    /\ MainInit
    /\ sw = NoSwitch
    /\ serde = NoSerde
    /\ call = NoCall

Called(name) == \E i \in 1..Len(calls) : calls[i] = name

(* --------------------------- the environment --------------------------- *)
\* A new commit lands on the template remote's master.
TemplateAdvance ==
    /\ pc = "idle"
    /\ tmplLatest < MaxCommit
    /\ tmplLatest' = tmplLatest + 1
    /\ lastStatus' = NoLastStatus
    /\ prev' = NoPrev
    /\ UNCHANGED <<sw, serde, call, record, projVars, op, pc, loc, calls, result,
                   scratch, start>>

\* The user turns a rendered directory into a repository with one commit.
UserGitInit ==
    /\ pc = "idle"
    /\ projDir = "plain"
    /\ projDir' = "repo"
    /\ UNCHANGED <<sw, serde, call, tmplLatest, record, projBranch, projWork, projCommits, opVars>>
    /\ prev' = NoPrev

\* The user edits a tracked file of the project.
UserEdit ==
    /\ pc = "idle"
    /\ projDir = "repo"
    /\ projWork = "asHead"
    /\ projWork' = "edited"
    /\ UNCHANGED <<sw, serde, call, tmplLatest, record, projDir, projBranch, projCommits, opVars>>
    /\ prev' = NoPrev

\* The user discards or resolves whatever is in the working tree.
UserClean ==
    /\ pc = "idle"
    /\ projDir = "repo"
    /\ projWork # "asHead"
    /\ projWork' = "asHead"
    /\ UNCHANGED <<sw, serde, call, tmplLatest, record, projDir, projBranch, projCommits, opVars>>
    /\ prev' = NoPrev

\* The user switches the project to another branch.
UserCheckout ==
    /\ pc = "idle"
    /\ projDir = "repo"
    /\ projWork = "asHead"
    /\ \E b \in {"master", "feature"} :
          /\ b # projBranch
          /\ projBranch' = b
    /\ UNCHANGED <<sw, serde, call, tmplLatest, record, projDir, projWork, projCommits, opVars>>
    /\ prev' = NoPrev

(* --------------------------- common steps ------------------------------ *)
\* Finish with the scratch directory torn down after the block instead of
\* by the `with` statement: an exception leaves it on disk.
Finish_Leak(res) ==
    /\ pc' = "done"
    /\ result' = res
    /\ scratch' = (scratch /\ res.kind = "raised")

\* Leaving the action: the `with scratch.new()` block is exited on every
\* path, and results.wrapper hands back the Result or lets the exception out.
Finish(res) ==
    /\ pc' = "done"
    /\ result' = res
    /\ scratch' = FALSE

\* results.wrapper without its StateFileNotFound clause.
wrapper_ReraiseAll(exc) == Raised(exc)

\* results.wrapper: StateFileNotFound becomes an error Result; any other
\* exception is re-raised to the caller.
wrapper(exc) ==
    IF exc = "StateFileNotFound"
    THEN error(exc, Msg("not_found", 0, 0, "", {}, {}))
    ELSE Raised(exc)

\* The command that is returning worked against the template's latest
\* commit: a sync whose patch toward it was applied and committed, an init
\* or a link whose repository was on it.
AtLatest ==
    CASE op = "sync" -> loc.patch = "committed" /\ loc.target.commit = tmplLatest
      [] op \in {"init", "link"} -> loc.current.commit = tmplLatest
      [] OTHER -> FALSE

\* The caller has the outcome; the next command can be run.
Return ==
    /\ pc = "done"
    /\ pc' = "idle"
    /\ op' = "none"
    /\ loc' = NoLoc
    /\ calls' = <<>>
    /\ result' = NoResult
    /\ lastStatus' =
         IF op = "status" /\ result.kind = "result"
         THEN [valid |-> TRUE, result |-> result, latest |-> tmplLatest,
               record |-> record]
         ELSE lastStatus
    /\ prev' = IF result.kind = "result" /\ result.success /\ AtLatest
               THEN op ELSE NoPrev
    /\ start' = NoSnapshot
    /\ UNCHANGED <<envVars, scratch>>

\* An action is started from the command line with its arguments.
Begin(o, first, l, sc) ==
    /\ pc = "idle"
    /\ op' = o
    /\ pc' = first
    /\ loc' = l
    /\ calls' = <<>>
    /\ result' = NoResult
    /\ scratch' = sc
    /\ start' = Snapshot
    /\ lastStatus' = IF o = "status" THEN lastStatus ELSE NoLastStatus
    /\ prev' = IF o \in {"status", "sync"} THEN prev ELSE NoPrev
    /\ UNCHANGED envVars

\* config.read at the top of status/diff/drift/sync; `enter` says whether
\* the scratch block is entered right after it.
ReadState(o, enter, next) ==
    /\ op = o
    /\ pc = "read"
    /\ calls' = Append(calls, "config.read")
    /\ CASE record.form = "json" ->
               /\ loc' = [loc EXCEPT !.state = record]
               /\ pc' = next
               /\ scratch' = enter
               /\ UNCHANGED result
          [] record.form = "empty" ->
               /\ Finish(wrapper("StateFileMalformed"))
               /\ UNCHANGED loc
          [] OTHER ->
               /\ Finish(wrapper("StateFileNotFound"))
               /\ UNCHANGED loc
    /\ UNCHANGED <<envVars, op, start, lastStatus, prev>>

\* porcelain.clone into a fresh scratch directory: VersionControl.get takes
\* the remote branch (git clone, then git checkout of the ref).
CloneStep(o, at, ref, field, next) ==
    /\ op = o
    /\ pc = at
    /\ calls' = Append(calls, "clone")
    /\ \/ /\ ResolveRef(ref, tmplLatest) <= tmplLatest
          /\ loc' = [loc EXCEPT ![field] =
                        [commit |-> ResolveRef(ref, tmplLatest), remote |-> tmplLatest]]
          /\ pc' = next
          /\ UNCHANGED <<result, scratch>>
       \/ /\ Finish(wrapper("ErrorReturnCode"))
          /\ UNCHANGED loc
    /\ UNCHANGED <<envVars, op, start, lastStatus, prev>>

\* Variables cookiecutter settles on: the state file's variables override
\* the template defaults, and an interactive prompt lets the user answer.
ContextVariables(variables, interactive) ==
    IF interactive THEN VarValues
    ELSE {IF variables = "" THEN DefaultVar ELSE variables}

\* porcelain.context: one TemplateContext object generated from variables.
ContextStep(o, at, variables, interactive, next) ==
    /\ op = o
    /\ pc = at
    /\ calls' = Append(calls, "context")
    /\ \/ \E v \in ContextVariables(variables, interactive) :
             /\ loc' = [loc EXCEPT !.contexts = @ + 1,
                                   !.context = [id |-> loc.contexts + 1, variables |-> v]]
             /\ pc' = next
             /\ UNCHANGED <<result, scratch>>
       \/ /\ Finish(wrapper("ContextError"))
          /\ UNCHANGED loc
    /\ UNCHANGED <<envVars, op, start, lastStatus, prev>>

\* porcelain.render_context: render a clone with a given context object.
RenderStep(o, at, clone, ctx, next) ==
    /\ op = o
    /\ pc = at
    /\ calls' = Append(calls, "render")
    /\ \/ /\ loc' = [loc EXCEPT !.renders = Append(@,
                        [commit |-> clone.commit, ctx |-> ctx,
                         tree |-> RenderTree(clone.commit, ctx.variables)])]
          /\ pc' = next
          /\ UNCHANGED <<result, scratch>>
       \/ /\ Finish(wrapper("RenderError"))
          /\ UNCHANGED loc
    /\ UNCHANGED <<envVars, op, start, lastStatus, prev>>

(* ------------------------------- sync ---------------------------------- *)
\* sync(src, ref, interactive) is invoked.
SyncStart ==
    /\ projCommits < MaxProjCommits
    /\ \E r \in Refs, i \in BOOLEAN :
          Begin("sync", "read", [NoLoc EXCEPT !.ref = r, !.interactive = i], FALSE)

SyncRead == ReadState("sync", FALSE, "update_checkout")

\* porcelain.repo -> VersionControl.local -> Repository.update, first half:
\* `git checkout master` in the live project.
SyncUpdateCheckout ==
    /\ op = "sync"
    /\ pc = "update_checkout"
    /\ calls' = Append(calls, "checkout")
    /\ \/ /\ projDir = "repo"
          /\ projWork # "conflict"
          /\ projBranch' = "master"
          /\ pc' = "update_pull"
          /\ UNCHANGED <<result, scratch>>
       \/ /\ Finish(wrapper("ErrorReturnCode"))
          /\ UNCHANGED projBranch
    /\ UNCHANGED <<sw, serde, call, tmplLatest, record, projDir, projWork, projCommits,
                   op, loc, start, lastStatus, prev>>

\* Repository.update, second half: `git pull` in the live project.
SyncUpdatePull ==
    /\ op = "sync"
    /\ pc = "update_pull"
    /\ calls' = Append(calls, "pull")
    /\ \/ /\ pc' = "checkout_ref"
          /\ UNCHANGED <<result, scratch>>
       \/ Finish(wrapper("ErrorReturnCode"))
    /\ UNCHANGED <<envVars, op, loc, start, lastStatus, prev>>

\* VersionControl.local: `if ref: repo.checkout(ref)` in the live project.
\* `git checkout HEAD` keeps the branch; any other ref names a template
\* reference, which the project repository may or may not know.
SyncCheckoutRef ==
    /\ op = "sync"
    /\ pc = "checkout_ref"
    /\ IF loc.ref = NoRef
       THEN /\ pc' = "is_dirty"
            /\ UNCHANGED <<calls, projBranch, result, scratch>>
       ELSE /\ calls' = Append(calls, "checkout")
            /\ \/ /\ projBranch' = IF loc.ref = HEAD THEN projBranch ELSE "detached"
                  /\ pc' = "is_dirty"
                  /\ UNCHANGED <<result, scratch>>
               \/ /\ Finish(wrapper("ErrorReturnCode"))
                  /\ UNCHANGED projBranch
    /\ UNCHANGED <<sw, serde, call, tmplLatest, record, projDir, projWork, projCommits,
                   op, loc, start, lastStatus, prev>>

\* SyncIsDirty with the early return lost: the status is read but sync
\* goes on whatever it says.
SyncIsDirty_NoReturn ==
    /\ op = "sync"
    /\ pc = "is_dirty"
    /\ calls' = Append(calls, "is_dirty")
    /\ loc' = [loc EXCEPT !.dirty = is_dirty(projWork)]
    /\ pc' = "clone_current"
    /\ scratch' = TRUE
    /\ UNCHANGED result
    /\ UNCHANGED <<envVars, op, start, lastStatus, prev>>

\* The dirty guard: a dirty working tree ends sync with a failure Result
\* carrying the status text; a clean one enters the scratch block.
SyncIsDirty ==
    /\ op = "sync"
    /\ pc = "is_dirty"
    /\ calls' = Append(calls, "is_dirty")
    /\ loc' = [loc EXCEPT !.dirty = is_dirty(projWork)]
    /\ IF is_dirty(projWork).success
       THEN Finish(failure(Msg("dirty", 0, 0, is_dirty(projWork).stdout.text, {}, {})))
       ELSE /\ pc' = "clone_current"
            /\ scratch' = TRUE
            /\ UNCHANGED result
    /\ UNCHANGED <<envVars, op, start, lastStatus, prev>>

\* SyncCloneCurrent cloning at the requested target ref: the up-to-date
\* test then compares the target with the remote's latest.
SyncCloneCurrent_AtTarget ==
    CloneStep("sync", "clone_current", loc.ref, "current", "status")


SyncCloneCurrent == CloneStep("sync", "clone_current", loc.state.ref, "current", "status")

\* SyncStatus with the up-to-date return lost: sync always goes on to
\* clone the target.
SyncStatus_NoShortCircuit ==
    /\ op = "sync"
    /\ pc = "status"
    /\ calls' = Append(calls, "status")
    /\ loc' = [loc EXCEPT !.status = Status(loc.current.commit, loc.current.remote)]
    /\ pc' = "clone_target"
    /\ UNCHANGED <<result, scratch>>
    /\ UNCHANGED <<envVars, op, start, lastStatus, prev>>

\* porcelain.status of the clone at the recorded ref; up to date ends sync.
SyncStatus ==
    /\ op = "sync"
    /\ pc = "status"
    /\ calls' = Append(calls, "status")
    /\ loc' = [loc EXCEPT !.status = Status(loc.current.commit, loc.current.remote)]
    /\ IF same(Status(loc.current.commit, loc.current.remote))
       THEN Finish(success(StatusMessage(Status(loc.current.commit, loc.current.remote))))
       ELSE /\ pc' = "clone_target"
            /\ UNCHANGED <<result, scratch>>
    /\ UNCHANGED <<envVars, op, start, lastStatus, prev>>

SyncCloneTarget == CloneStep("sync", "clone_target", loc.ref, "target", "context")

SyncContext ==
    ContextStep("sync", "context", loc.state.variables, loc.interactive, "render_current")

SyncRenderCurrent ==
    RenderStep("sync", "render_current", loc.current, loc.context, "render_target")

\* SyncRenderTarget calling porcelain.render instead of
\* porcelain.render_context: a second context is generated for the render.
SyncRenderTarget_Regenerate ==
    /\ op = "sync"
    /\ pc = "render_target"
    /\ calls' = Append(calls, "render")
    /\ \/ \E v \in ContextVariables(loc.state.variables, loc.interactive) :
             /\ loc' = [loc EXCEPT
                          !.contexts = @ + 1,
                          !.renders = Append(@,
                              [commit |-> loc.target.commit,
                               ctx |-> [id |-> loc.contexts + 1, variables |-> v],
                               tree |-> RenderTree(loc.target.commit, v)])]
             /\ pc' = "diff"
             /\ UNCHANGED <<result, scratch>>
       \/ /\ Finish(wrapper("RenderError"))
          /\ UNCHANGED loc
    /\ UNCHANGED <<envVars, op, start, lastStatus, prev>>

SyncRenderTarget ==
    RenderStep("sync", "render_target", loc.target, loc.context, "diff")

\* porcelain.diff(current_rendered.path, target_rendered.path)
SyncDiff ==
    /\ op = "sync"
    /\ pc = "diff"
    /\ calls' = Append(calls, "compare")
    /\ loc' = [loc EXCEPT !.diff = Compare(loc.renders[1].tree, loc.renders[2].tree),
                          !.compared = <<loc.renders[1].commit, loc.renders[2].commit>>]
    /\ pc' = "apply"
    /\ UNCHANGED <<envVars, op, result, scratch, start, lastStatus, prev>>

\* Repository.apply_patch, first command: `git apply --3way`.  It applies
\* into working tree and index, or stops on a conflict leaving the markers
\* behind, or rejects the patch; a non-zero exit raises.
SyncApply ==
    /\ op = "sync"
    /\ pc = "apply"
    /\ calls' = Append(calls, "apply_patch")
    /\ \/ /\ loc.diff # {}
          /\ projWork' = "patched"
          /\ loc' = [loc EXCEPT !.patch = "applied"]
          /\ pc' = "commit"
          /\ UNCHANGED <<result, scratch>>
       \/ /\ loc.diff # {}
          /\ projWork' = "conflict"
          /\ loc' = [loc EXCEPT !.patch = "conflict"]
          /\ Finish(wrapper("ErrorReturnCode"))
       \/ /\ loc' = [loc EXCEPT !.patch = "rejected"]
          /\ Finish(wrapper("ErrorReturnCode"))
          /\ UNCHANGED projWork
    /\ UNCHANGED <<sw, serde, call, tmplLatest, record, projDir, projBranch, projCommits,
                   op, start, lastStatus, prev>>

\* SyncCommit reporting success whatever the commit did.
SyncCommit_IgnoreFailure ==
    /\ op = "sync"
    /\ pc = "commit"
    /\ \/ /\ projWork' = "asHead"
          /\ projCommits' = projCommits + 1
          /\ loc' = [loc EXCEPT !.patch = "committed"]
          /\ Finish(success(Msg("synced", 0, loc.target.commit, "", {}, {})))
       \/ /\ loc' = [loc EXCEPT !.patch = "commit_failed"]
          /\ Finish(success(Msg("synced", 0, loc.target.commit, "", {}, {})))
          /\ UNCHANGED <<projWork, projCommits>>
    /\ UNCHANGED <<sw, serde, call, tmplLatest, record, projDir, projBranch, op, calls, start, lastStatus, prev>>

\* Repository.apply_patch, second command: `git commit -m msg --signoff`,
\* then porcelain.patch returns and sync reports success.
SyncCommit ==
    /\ op = "sync"
    /\ pc = "commit"
    /\ \/ /\ projWork' = "asHead"
          /\ projCommits' = projCommits + 1
          /\ loc' = [loc EXCEPT !.patch = "committed"]
          /\ Finish(success(Msg("synced", 0, loc.target.commit, "", {}, {})))
       \/ /\ loc' = [loc EXCEPT !.patch = "commit_failed"]
          /\ Finish(wrapper("ErrorReturnCode"))
          /\ UNCHANGED <<projWork, projCommits>>
    /\ UNCHANGED <<sw, serde, call, tmplLatest, record, projDir, projBranch, op, calls, start, lastStatus, prev>>

Sync ==
    \/ SyncStart \/ SyncRead \/ SyncUpdateCheckout \/ SyncUpdatePull
    \/ SyncCheckoutRef \/ SyncIsDirty \/ SyncCloneCurrent \/ SyncStatus
    \/ SyncCloneTarget \/ SyncContext \/ SyncRenderCurrent \/ SyncRenderTarget
    \/ SyncDiff \/ SyncApply \/ SyncCommit

(* ------------------------------ status --------------------------------- *)
StatusStart == Begin("status", "read", NoLoc, FALSE)

StatusRead == ReadState("status", TRUE, "clone_current")

\* StatusCloneCurrent obtaining the repository the way sync does, with
\* porcelain.repo on the project path: master is checked out in the live
\* project before the clone is used.
StatusCloneCurrent_InPlace ==
    /\ op = "status"
    /\ pc = "clone_current"
    /\ calls' = Append(calls, "clone")
    /\ \/ /\ ResolveRef(loc.state.ref, tmplLatest) <= tmplLatest
          /\ loc' = [loc EXCEPT !.current =
                        [commit |-> ResolveRef(loc.state.ref, tmplLatest),
                         remote |-> tmplLatest]]
          /\ projBranch' = "master"
          /\ pc' = "status"
          /\ UNCHANGED <<result, scratch>>
       \/ /\ Finish(wrapper("ErrorReturnCode"))
          /\ UNCHANGED <<loc, projBranch>>
    /\ UNCHANGED <<sw, serde, call, tmplLatest, record, projDir, projWork, projCommits,
                   op, start, lastStatus, prev>>

StatusCloneCurrent ==
    CloneStep("status", "clone_current", loc.state.ref, "current", "status")

\* StatusStatus with the test inverted: `if not status.same`.
StatusStatus_Inverted ==
    /\ op = "status"
    /\ pc = "status"
    /\ calls' = Append(calls, "status")
    /\ loc' = [loc EXCEPT !.status = Status(loc.current.commit, loc.current.remote)]
    /\ IF ~same(Status(loc.current.commit, loc.current.remote))
       THEN Finish(success(StatusMessage(Status(loc.current.commit, loc.current.remote))))
       ELSE /\ pc' = "clone_target"
            /\ UNCHANGED <<result, scratch>>
    /\ UNCHANGED <<envVars, op, start, lastStatus, prev>>

\* porcelain.status of the clone at the recorded ref; `same` ends status
\* with success.
StatusStatus ==
    /\ op = "status"
    /\ pc = "status"
    /\ calls' = Append(calls, "status")
    /\ loc' = [loc EXCEPT !.status = Status(loc.current.commit, loc.current.remote)]
    /\ IF same(Status(loc.current.commit, loc.current.remote))
       THEN Finish(success(StatusMessage(Status(loc.current.commit, loc.current.remote))))
       ELSE /\ pc' = "clone_target"
            /\ UNCHANGED <<result, scratch>>
    /\ UNCHANGED <<envVars, op, start, lastStatus, prev>>

\* The clone "at latest": no ref is passed.
StatusCloneLatest == CloneStep("status", "clone_target", NoRef, "target", "context")

StatusContext ==
    ContextStep("status", "context", loc.state.variables, FALSE, "render_current")

StatusRenderCurrent ==
    RenderStep("status", "render_current", loc.current, loc.context, "render_target")

StatusRenderTarget ==
    RenderStep("status", "render_target", loc.target, loc.context, "diff_files")

\* porcelain.diff_files(target_rendered.path, current_rendered.path), then
\* the failure Result with status message, file list and guidance.
StatusDiffFiles ==
    /\ op = "status"
    /\ pc = "diff_files"
    /\ calls' = Append(calls, "compare_files")
    /\ loc' = [loc EXCEPT !.files = CompareFiles(loc.renders[2].tree, loc.renders[1].tree),
                          !.compared = <<loc.renders[2].commit, loc.renders[1].commit>>]
    /\ Finish(failure(Msg("status", loc.status.local_ref, loc.status.remote_ref,
                          "out-of-date; run diff or sync",
                          CompareFiles(loc.renders[2].tree, loc.renders[1].tree), {})))
    /\ UNCHANGED <<envVars, op, start, lastStatus, prev>>

StatusAction ==
    \/ StatusStart \/ StatusRead \/ StatusCloneCurrent \/ StatusStatus
    \/ StatusCloneLatest \/ StatusContext \/ StatusRenderCurrent
    \/ StatusRenderTarget \/ StatusDiffFiles

(* ------------------------------- diff ---------------------------------- *)
DiffStart ==
    \E r \in Refs, i \in BOOLEAN :
       Begin("diff", "read", [NoLoc EXCEPT !.ref = r, !.interactive = i], FALSE)

DiffRead == ReadState("diff", TRUE, "clone_current")

DiffCloneCurrent ==
    CloneStep("diff", "clone_current", loc.state.ref, "current", "clone_target")

DiffCloneTarget == CloneStep("diff", "clone_target", loc.ref, "target", "context")

DiffContext ==
    ContextStep("diff", "context", loc.state.variables, loc.interactive, "render_current")

DiffRenderCurrent ==
    RenderStep("diff", "render_current", loc.current, loc.context, "render_target")

DiffRenderTarget ==
    RenderStep("diff", "render_target", loc.target, loc.context, "diff")

\* porcelain.diff(current_rendered.path, target_rendered.path), returned
\* as the stdout of a success Result.
DiffDiff ==
    /\ op = "diff"
    /\ pc = "diff"
    /\ calls' = Append(calls, "compare")
    /\ loc' = [loc EXCEPT !.diff = Compare(loc.renders[1].tree, loc.renders[2].tree),
                          !.compared = <<loc.renders[1].commit, loc.renders[2].commit>>]
    /\ Finish(success(Msg("diff", 0, 0, "", {},
                          Compare(loc.renders[1].tree, loc.renders[2].tree))))
    /\ UNCHANGED <<envVars, op, start, lastStatus, prev>>

DiffAction ==
    \/ DiffStart \/ DiffRead \/ DiffCloneCurrent \/ DiffCloneTarget
    \/ DiffContext \/ DiffRenderCurrent \/ DiffRenderTarget \/ DiffDiff

(* ------------------------------- drift --------------------------------- *)
DriftStart ==
    \E i \in BOOLEAN : Begin("drift", "read", [NoLoc EXCEPT !.interactive = i], FALSE)

DriftRead == ReadState("drift", TRUE, "clone_current")

DriftClone == CloneStep("drift", "clone_current", loc.state.ref, "current", "context")

DriftContext ==
    ContextStep("drift", "context", loc.state.variables, loc.interactive, "render_current")

DriftRender ==
    RenderStep("drift", "render_current", loc.current, loc.context, "graft")

\* porcelain.graft builds its ignore function with
\* ignore.ignore_names_missing(layout, options): two arguments for a
\* function of three (layout, src, options), so the call raises TypeError
\* before anything is copied.
DriftGraft ==
    /\ op = "drift"
    /\ pc = "graft"
    /\ calls' = Append(calls, "graft")
    /\ Finish(wrapper("TypeError"))
    /\ UNCHANGED <<envVars, op, loc, start, lastStatus, prev>>

DriftAction ==
    \/ DriftStart \/ DriftRead \/ DriftClone \/ DriftContext \/ DriftRender
    \/ DriftGraft

(* ------------------------------- init ---------------------------------- *)
\* init(src, dst, ref, force, interactive): config.new builds the state in
\* memory and the scratch block is entered.
InitStart ==
    \E r \in Refs, f \in BOOLEAN, i \in BOOLEAN :
       Begin("init", "repo",
             [NoLoc EXCEPT !.ref = r, !.force = f, !.interactive = i,
                           !.state = StateRecord(r, "")], TRUE)

\* porcelain.repo(src, scratch_dir.wd, ref): VersionControl.local on the
\* scratch working directory (checkout master, pull, checkout ref).
InitRepo ==
    /\ op = "init"
    /\ pc = "repo"
    /\ calls' = Append(calls, "repo")
    /\ \/ /\ ResolveRef(loc.ref, tmplLatest) <= tmplLatest
          /\ loc' = [loc EXCEPT !.current =
                        [commit |-> ResolveRef(loc.ref, tmplLatest), remote |-> tmplLatest]]
          /\ pc' = "render"
          /\ UNCHANGED <<result, scratch>>
       \/ /\ Finish(wrapper("ErrorReturnCode"))
          /\ UNCHANGED loc
    /\ UNCHANGED <<envVars, op, start, lastStatus, prev>>

\* generate_files that never refuses an existing output directory.
OutputDirExists_Never(dir, force) == FALSE

\* cookiecutter's generate_files(..., overwrite_if_exists=force) raises
\* OutputDirExistsException, before writing anything, when the directory
\* it is to render exists and force is false.
OutputDirExists(dir, force) == dir \in {"plain", "repo"} /\ ~force

\* InitRender with the state written ahead of the render: the file is on
\* disk whether or not the render then succeeds.
InitRender_WriteFirst ==
    /\ op = "init"
    /\ pc = "render"
    /\ calls' = Append(calls, "render")
    /\ record' = StateRecord(loc.current.commit, loc.state.variables)
    /\ \/ /\ projDir # "file"
          /\ ~OutputDirExists(projDir, loc.force)
          /\ \E v \in ContextVariables(loc.state.variables, loc.interactive) :
                loc' = [loc EXCEPT
                          !.contexts = @ + 1,
                          !.context = [id |-> loc.contexts + 1, variables |-> v],
                          !.renders = Append(@,
                              [commit |-> loc.current.commit,
                               ctx |-> [id |-> loc.contexts + 1, variables |-> v],
                               tree |-> RenderTree(loc.current.commit, v)])]
          /\ projDir' = IF projDir = "absent" THEN "plain" ELSE projDir
          /\ projWork' = IF projDir = "repo" THEN "edited" ELSE projWork
          /\ pc' = "write"
          /\ UNCHANGED <<result, scratch>>
       \/ /\ OutputDirExists(projDir, loc.force)
          /\ Finish(wrapper("RenderedTemplateDirectoryExists"))
          /\ UNCHANGED <<loc, projDir, projWork>>
       \/ /\ ~OutputDirExists(projDir, loc.force)
          /\ Finish(wrapper("RenderError"))
          /\ UNCHANGED <<loc, projDir, projWork>>
    /\ UNCHANGED <<sw, serde, call, tmplLatest, projBranch, projCommits, op, start, lastStatus, prev>>

\* porcelain.render(repo, dst, state.variables, force, interactive):
\* a context is generated and the template rendered into dst; an existing
\* directory without force raises RenderedTemplateDirectoryExists, and
\* nothing can be rendered below a path that is a regular file.
InitRender ==
    /\ op = "init"
    /\ pc = "render"
    /\ calls' = Append(calls, "render")
    /\ \/ /\ projDir # "file"
          /\ ~OutputDirExists(projDir, loc.force)
          /\ \E v \in ContextVariables(loc.state.variables, loc.interactive) :
                loc' = [loc EXCEPT
                          !.contexts = @ + 1,
                          !.context = [id |-> loc.contexts + 1, variables |-> v],
                          !.renders = Append(@,
                              [commit |-> loc.current.commit,
                               ctx |-> [id |-> loc.contexts + 1, variables |-> v],
                               tree |-> RenderTree(loc.current.commit, v)])]
          /\ projDir' = IF projDir = "absent" THEN "plain" ELSE projDir
          /\ projWork' = IF projDir = "repo" THEN "edited" ELSE projWork
          /\ pc' = "write"
          /\ UNCHANGED <<result, scratch>>
       \/ /\ OutputDirExists(projDir, loc.force)
          /\ Finish(wrapper("RenderedTemplateDirectoryExists"))
          /\ UNCHANGED <<loc, projDir, projWork>>
       \/ /\ ~OutputDirExists(projDir, loc.force)
          /\ Finish(wrapper("RenderError"))
          /\ UNCHANGED <<loc, projDir, projWork>>
    /\ UNCHANGED <<sw, serde, call, tmplLatest, record, projBranch, projCommits,
                   op, start, lastStatus, prev>>

\* SupportsFileSerde.write: the file is opened with mode 'w' (created or
\* truncated) before encode() and f.write run; when one of them raises the
\* file is left empty.
WriteState(st) ==
    \/ /\ record' = st
       /\ Finish(success(Msg("written", 0, st.ref, "", {}, {})))
    \/ /\ record' = TruncatedRecord
       /\ Finish(wrapper("OSError"))

\* InitWrite recording the reference the user passed instead of the commit
\* the repository is on.
InitWrite_SymbolicRef ==
    /\ op = "init"
    /\ pc = "write"
    /\ calls' = Append(calls, "config.write")
    /\ loc' = [loc EXCEPT !.state = StateRecord(safe_ref(loc.ref),
                                                loc.renders[1].ctx.variables)]
    /\ WriteState(StateRecord(safe_ref(loc.ref), loc.renders[1].ctx.variables))
    /\ UNCHANGED <<sw, serde, call, tmplLatest, projVars, op, start, lastStatus, prev>>

\* state.set_ref(repo.commit_id()); state.set_variables(context variables);
\* config.write(state, rendered.path); success.
InitWrite ==
    /\ op = "init"
    /\ pc = "write"
    /\ calls' = Append(calls, "config.write")
    /\ loc' = [loc EXCEPT !.state = StateRecord(loc.current.commit,
                                                loc.renders[1].ctx.variables)]
    /\ WriteState(StateRecord(loc.current.commit, loc.renders[1].ctx.variables))
    /\ UNCHANGED <<sw, serde, call, tmplLatest, projVars, op, start, lastStatus, prev>>

InitAction == InitStart \/ InitRepo \/ InitRender \/ InitWrite

(* ------------------------------- link ---------------------------------- *)
\* link(src, dst, ref, interactive): config.new builds the state in memory
\* and the scratch block is entered.
LinkStart ==
    \E r \in Refs, i \in BOOLEAN :
       Begin("link", "clone",
             [NoLoc EXCEPT !.ref = r, !.interactive = i,
                           !.state = StateRecord(r, "")], TRUE)

\* porcelain.clone(src, scratch_dir.wd, ref).
LinkClone == CloneStep("link", "clone", loc.ref, "current", "context")

\* LinkContext followed by a render of the template with that context.
LinkContext_Render ==
    /\ op = "link"
    /\ pc = "context"
    /\ calls' = calls \o <<"context", "render">>
    /\ \/ \E v \in ContextVariables(loc.state.variables, loc.interactive) :
             /\ loc' = [loc EXCEPT !.contexts = @ + 1,
                                   !.context = [id |-> loc.contexts + 1, variables |-> v]]
             /\ pc' = "write"
             /\ UNCHANGED <<result, scratch>>
       \/ /\ Finish(wrapper("ContextError"))
          /\ UNCHANGED loc
    /\ UNCHANGED <<envVars, op, start, lastStatus, prev>>

\* porcelain.context(repo, state.variables, interactive).
LinkContext ==
    ContextStep("link", "context", loc.state.variables, loc.interactive, "write")

\* LinkWrite recording the reference the user passed instead of the commit
\* the clone is on.
LinkWrite_SymbolicRef ==
    /\ op = "link"
    /\ pc = "write"
    /\ calls' = Append(calls, "config.write")
    /\ loc' = [loc EXCEPT !.state = StateRecord(safe_ref(loc.ref),
                                                loc.context.variables)]
    /\ WriteState(StateRecord(safe_ref(loc.ref), loc.context.variables))
    /\ projDir' = IF projDir = "absent" THEN "file" ELSE projDir
    /\ UNCHANGED <<sw, serde, call, tmplLatest, projBranch, projWork, projCommits,
                   op, start, lastStatus, prev>>

\* state.set_ref(repo.commit_id()); state.set_variables(context.variables);
\* config.write(state, dst).  resolve_path appends the state file name only
\* when dst is a directory: with nothing at dst the state is written to a
\* regular file at dst itself.
LinkWrite ==
    /\ op = "link"
    /\ pc = "write"
    /\ calls' = Append(calls, "config.write")
    /\ loc' = [loc EXCEPT !.state = StateRecord(loc.current.commit,
                                                loc.context.variables)]
    /\ WriteState(StateRecord(loc.current.commit, loc.context.variables))
    /\ projDir' = IF projDir = "absent" THEN "file" ELSE projDir
    /\ UNCHANGED <<sw, serde, call, tmplLatest, projBranch, projWork, projCommits,
                   op, start, lastStatus, prev>>

LinkAction == LinkStart \/ LinkClone \/ LinkContext \/ LinkWrite

(* ------------------------------ unlink --------------------------------- *)
\* unlink(path) on the user's project path (outside the microsync root,
\* so projects.read takes read_local).
UnlinkStart == Begin("unlink", "read", NoLoc, FALSE)

\* read_local: config.read(state_path).
UnlinkRead == ReadState("unlink", FALSE, "remote_url")

\* read_local: porcelain.remote_url(path, state.template.vcs), which is
\* `git remote get-url origin` run in the project path and raises when
\* that is no git repository or has no origin; then the Project is built
\* and `with ... as project` enters its scratch directory.
UnlinkRemoteUrl ==
    /\ op = "unlink"
    /\ pc = "remote_url"
    /\ calls' = Append(calls, "remote_url")
    /\ \/ /\ projDir = "repo"
          /\ pc' = "delete"
          /\ scratch' = TRUE
          /\ UNCHANGED result
       \/ /\ Finish(wrapper("ErrorReturnCode"))
    /\ UNCHANGED <<envVars, op, loc, start, lastStatus, prev>>

\* projects.delete(project): config.delete removes the state file; the
\* scratch block is left and success returned.
UnlinkDelete ==
    /\ op = "unlink"
    /\ pc = "delete"
    /\ calls' = Append(calls, "config.delete")
    /\ record' = NoRecord
    /\ Finish(success(Msg("unlinked", 0, loc.state.ref, "", {}, {})))
    /\ UNCHANGED <<sw, serde, call, tmplLatest, projVars, op, loc, start, lastStatus, prev>>

UnlinkAction == UnlinkStart \/ UnlinkRead \/ UnlinkRemoteUrl \/ UnlinkDelete

(* ---------------------------- specification ---------------------------- *)
Environment ==
    TemplateAdvance \/ UserGitInit \/ UserEdit \/ UserClean \/ UserCheckout

Next ==
    \/ Environment
    \/ Sync
    \/ StatusAction
    \/ DiffAction
    \/ DriftAction
    \/ InitAction
    \/ LinkAction
    \/ UnlinkAction
    \/ Return

Spec == Init /\ [][Next]_vars

TypeOK ==
    /\ tmplLatest \in Commits
    /\ projDir \in {"absent", "file", "plain", "repo"}
    /\ record.form \in {"none", "json", "empty"}
    /\ projBranch \in {"master", "feature", "detached"}
    /\ projWork \in {"asHead", "edited", "patched", "conflict"}
    /\ projCommits \in 1..MaxProjCommits
    /\ op \in {"none", "sync", "status", "diff", "drift", "init", "link", "unlink"}
    /\ scratch \in BOOLEAN
    /\ result.kind \in {"none", "result", "raised"}

(* ------------------------- Repository.switch_to ------------------------ *)
\* A reference git cannot resolve in the repository.
UnknownRef == MaxCommit + 1
SwitchRefs == Refs \cup {UnknownRef}

\* git checkout <ref> exits non-zero (sh raises) for an unknown reference.
CanCheckout(ref) == ref = HEAD \/ ref \in Commits

\* The commit the handle is on after a checkout that succeeded.
CheckoutCommit(head, ref) == IF ref = HEAD THEN head ELSE ref

\* A repository handle on branch master at some commit.
InitSwitch ==
    /\ MainInit
    /\ serde = NoSerde
    /\ call = NoCall
    /\ \E h \in Commits :
          sw = [NoSwitch EXCEPT !.head = h, !.attached = TRUE, !.base = h]

\* `with repo.switch_to(ref):` is entered, at the top level or inside the
\* body of another scope: commit_id = self.commit_id(), then the checkout
\* of safe_ref(ref) inside the try block, which may raise.
SwitchEnter ==
    /\ ~sw.raising
    /\ Len(sw.stack) < MaxDepth
    /\ sw.scopes < MaxScopes
    /\ \E r \in SwitchRefs :
          LET ok == CanCheckout(safe_ref(r))
              to == IF ok THEN CheckoutCommit(sw.head, safe_ref(r)) ELSE sw.head
          IN  sw' = [sw EXCEPT
                       !.stack = Append(@, [saved |-> sw.head, ok |-> ok, at |-> to]),
                       !.head = to,
                       !.attached = IF ok /\ safe_ref(r) # HEAD THEN FALSE ELSE @,
                       !.raising = ~ok,
                       !.base = IF sw.stack = <<>> THEN sw.head ELSE @,
                       !.scopes = @ + 1]
    /\ UNCHANGED <<mainVars, serde, call>>

\* The body of the innermost open scope raises.
BodyRaise ==
    /\ sw.stack # <<>>
    /\ ~sw.raising
    /\ sw' = [sw EXCEPT !.raising = TRUE]
    /\ UNCHANGED <<mainVars, serde, call>>

\* How the innermost scope is being left.
ExitKind ==
    IF ~sw.stack[Len(sw.stack)].ok THEN "checkout_failed"
    ELSE IF sw.raising THEN "raised" ELSE "normal"

\* switch_to with the restoring checkout written after the yield instead
\* of in a finally clause: an exception skips it.
SwitchExit_NoFinally ==
    /\ sw.stack # <<>>
    /\ LET top == sw.stack[Len(sw.stack)]
       IN  sw' = [sw EXCEPT
                    !.stack = SubSeq(@, 1, Len(@) - 1),
                    !.head = IF sw.raising THEN @ ELSE top.saved,
                    !.attached = IF sw.raising THEN @ ELSE FALSE,
                    !.left = Append(@, [depth |-> Len(sw.stack), how |-> ExitKind,
                                        moved |-> sw.head # top.saved])]
    /\ UNCHANGED <<mainVars, serde, call>>

\* The innermost scope is left, normally or by an exception passing
\* through it: the finally clause checks out the saved commit id, which
\* leaves the handle detached at that commit.
SwitchExit ==
    /\ sw.stack # <<>>
    /\ LET top == sw.stack[Len(sw.stack)]
       IN  sw' = [sw EXCEPT
                    !.stack = SubSeq(@, 1, Len(@) - 1),
                    !.head = top.saved,
                    !.attached = FALSE,
                    !.left = Append(@, [depth |-> Len(sw.stack), how |-> ExitKind,
                                        moved |-> sw.head # top.saved])]
    /\ UNCHANGED <<mainVars, serde, call>>

\* The exception has left the outermost scope and reached the caller.
Caught ==
    /\ sw.stack = <<>>
    /\ sw.raising
    /\ sw' = [sw EXCEPT !.raising = FALSE]
    /\ UNCHANGED <<mainVars, serde, call>>

NextSwitch ==
    \/ SwitchEnter
    \/ BodyRaise
    \/ SwitchExit
    \/ Caught

SpecSwitch == InitSwitch /\ [][NextSwitch]_vars

(* ----------------------- state file encode / decode -------------------- *)
\* Template sources: an https URL, an scp-style git address, an ftp URL
\* and a bare word.
SrcValues == {"https://host/tmpl", "git@host:owner/tmpl.git", "ftp://host/tmpl", "tmpl"}

\* urlparse(src).scheme
Scheme(src) ==
    CASE src = "https://host/tmpl" -> "https"
      [] src = "ftp://host/tmpl"   -> "ftp"
      [] OTHER                     -> ""

\* utils.src_to_path: file, http*, git* schemes and git@host:path are
\* converted, anything else raises TemplateSourceInvalid.
src_to_path(src) ==
    IF Scheme(src) \in {"file", "http", "https", "git"}
       \/ (Scheme(src) = "" /\ src = "git@host:owner/tmpl.git")
    THEN "path"
    ELSE "TemplateSourceInvalid"

VcsTypes == {"git", "svn"}
TemplateTypes == {"cookiecutter", "jinja"}
ComparisonTypes == {"unidiff", "filecmp"}

\* vcs.for_type, templates.for_type, comparisons.for_type: look the name
\* up in the module's TYPES, raise when it is not there.
vcs_for_type(t) == IF t \in {"git"} THEN "ok" ELSE "VCSTypeNotSupported"
templates_for_type(t) == IF t \in {"cookiecutter"} THEN "ok" ELSE "TemplateTypeNotSupported"
comparisons_for_type(t) == IF t \in {"unidiff"} THEN "ok" ELSE "ComparisonTypeNotSupported"

\* A Python sequence value: a tuple or a list, with its items.
Patterns == {"*.pyc", "docs"}
PySeq(py, items) == [py |-> py, items |-> items]
ItemSeqs == UNION {[1..n -> Patterns] : n \in 0..MaxIgnore}
\* defaults.COMPARISON_IGNORE = tuple()
COMPARISON_IGNORE == PySeq("tuple", <<>>)

\* config.State with its nested Template, Comparison, Engine, Patch, VCS
\* and Meta dataclasses, flattened; two States are equal when every field
\* is equal, as dataclass __eq__ has it (a tuple never equals a list).
State(src, ref, vcs, engine, comparison, ignore, variables) ==
    [src |-> src, ref |-> ref, vcs |-> vcs, engine |-> engine,
     comparison |-> comparison, ignore |-> ignore, patch |-> "git",
     meta |-> "version", variables |-> variables]

\* config.new
new(src, ref, vcs_type, template_type, comparison_type) ==
    State(src, ref, vcs_type, template_type, comparison_type, COMPARISON_IGNORE, "")

\* States a program run can hold: built by config.new, with the ref and
\* variables set by init / link, with an ignore tuple, or read from a file.
States ==
    {State(s, r, v, e, c, PySeq(py, items), vv) :
        s \in SrcValues, r \in Refs, v \in VcsTypes, e \in TemplateTypes,
        c \in ComparisonTypes, py \in {"tuple", "list"}, items \in ItemSeqs,
        vv \in {""} \cup VarValues}

\* Keys of the JSON object the state file holds: template, its nested
\* src, vcs, comparison, engine and patch, and meta.
FieldNames == {"template", "src", "vcs", "comparison", "engine", "patch", "meta"}

\* Content of a state file: kind is "absent" (no file), "garbage" (not
\* JSON) or "object"; `has` are the keys present, and a JSON array is the
\* sequence of its items.
File(kind, has, st, array) ==
    [kind |-> kind, has |-> has, src |-> st.src, ref |-> st.ref, vcs |-> st.vcs,
     engine |-> st.engine, comparison |-> st.comparison, ignore |-> array,
     patch |-> st.patch, meta |-> st.meta, variables |-> st.variables]

Defaults == new("https://host/tmpl", HEAD, "git", "cookiecutter", "unidiff")
NoFile == File("absent", {}, Defaults, <<>>)
Garbage == File("garbage", {}, Defaults, <<>>)

\* serde.dumps: json.dumps with Encoder, which turns dataclasses into
\* dicts; tuples and lists both become JSON arrays.
dumps(st) == File("object", FieldNames, st, st.ignore.items)

\* SupportsJSONSerde.encode
encode(st) == dumps(st)

Returns(st) == [kind |-> "state", exc |-> "", field |-> "", state |-> st]
Raises(exc, field) == [kind |-> "raised", exc |-> exc, field |-> field, state |-> Defaults]

\* State.decode: serde.loads, then data['template']['comparison'],
\* ['engine'], ['patch'], ['vcs'] are looked up and replaced by their
\* dataclasses, Template(**data['template']) is built (a missing src is a
\* missing constructor argument: TypeError), then Meta(**data['meta']);
\* only KeyError becomes StateFileFieldMissing.  json.loads returns a
\* list for every array.  No field value is examined.
decode(text) ==
    CASE text.kind = "garbage" -> Raises("JSONDecodeError", "")
      [] "template" \notin text.has -> Raises("StateFileFieldMissing", "template")
      [] "comparison" \notin text.has -> Raises("StateFileFieldMissing", "comparison")
      [] "engine" \notin text.has -> Raises("StateFileFieldMissing", "engine")
      [] "patch" \notin text.has -> Raises("StateFileFieldMissing", "patch")
      [] "vcs" \notin text.has -> Raises("StateFileFieldMissing", "vcs")
      [] "src" \notin text.has -> Raises("TypeError", "")
      [] "meta" \notin text.has -> Raises("StateFileFieldMissing", "meta")
      [] OTHER -> Returns(State(text.src, text.ref, text.vcs, text.engine,
                               text.comparison, PySeq("list", text.ignore),
                               text.variables))

\* config.read: FileNotFoundError becomes StateFileNotFound and
\* JSONDecodeError StateFileMalformed; everything else passes through.
read(file) ==
    IF file.kind = "absent" THEN Raises("StateFileNotFound", "")
    ELSE IF decode(file).exc = "JSONDecodeError" THEN Raises("StateFileMalformed", "")
    ELSE decode(file)

\* State files to load: none, one that is not JSON, and objects with any
\* set of the keys present and any source and type selectors.
FileContents ==
    {NoFile, Garbage} \cup
    {File("object", has, new(s, HEAD, v, e, c), <<>>) :
        has \in SUBSET FieldNames, s \in SrcValues, v \in VcsTypes,
        e \in TemplateTypes, c \in ComparisonTypes}

InitLoad ==
    /\ MainInit
    /\ sw = NoSwitch
    /\ call = NoCall
    /\ \E f \in FileContents : serde = [step |-> "file", file |-> f]

\* config.read(path) is called on the file.
LoadRead ==
    /\ serde.step = "file"
    /\ serde' = [step |-> "read", file |-> serde.file, out |-> read(serde.file)]
    /\ UNCHANGED <<mainVars, sw, call>>

NextLoad == LoadRead

SpecLoad == InitLoad /\ [][NextLoad]_vars

InitRoundTrip ==
    /\ MainInit
    /\ sw = NoSwitch
    /\ call = NoCall
    /\ \E st \in States : serde = [step |-> "state", state |-> st]

\* record.encode()
EncodeStep ==
    /\ serde.step = "state"
    /\ serde' = [step |-> "encoded", state |-> serde.state,
                 text |-> encode(serde.state)]
    /\ UNCHANGED <<mainVars, sw, call>>

\* State.decode(text)
DecodeStep ==
    /\ serde.step = "encoded"
    /\ serde' = [step |-> "decoded", state |-> serde.state, text |-> serde.text,
                 out |-> decode(serde.text)]
    /\ UNCHANGED <<mainVars, sw, call>>

NextRoundTrip == EncodeStep \/ DecodeStep

SpecRoundTrip == InitRoundTrip /\ [][NextRoundTrip]_vars

(* ----------------------- results and exit codes ------------------------ *)
MaxExitCode == 2

\* Exit statuses of a finished shell command.
ExitCodes == 0..MaxExitCode
\* Output texts of a command or an action.
Texts == {"", "a", "b"}
Text(t) == Msg("text", 0, 0, t, {}, {})
Excs == {"StateFileNotFound", "OSError"}
\* The commands of the command line.
Commands == {"init", "link", "status", "diff", "drift", "sync", "unlink"}

\* results.command: Result(success=cmd.exit_code == 0, stdout, stderr).
command(cmd) == Result(cmd.exit_code = 0, cmd.stdout, cmd.stderr, "")

\* results.inverse handing its argument back.
inverse_Same(r) == r

\* results.inverse: same stdout, stderr and error, success negated.
inverse(r) == Result(~r.success, r.stdout, r.stderr, r.error)

\* Result.exit_code read as int(self.success).
exit_code_OfSuccess(r) == IF r.success THEN 1 ELSE 0

\* Result.exit_code: int(not self.success).
exit_code(r) == IF ~r.success THEN 1 ELSE 0

\* results.logger hands the result back unchanged.
logger(r) == r

\* cli.exit_wrapper: typer.Exit(code=result.exit_code) when that is not 0,
\* otherwise the result is returned.
exit_wrapper(r) ==
    IF exit_code(r) # 0
    THEN [kind |-> "Exit", code |-> exit_code(r)]
    ELSE [kind |-> "returned", code |-> 0]

NoExit == [kind |-> "none", code |-> 0]

InitResult ==
    /\ MainInit
    /\ sw = NoSwitch
    /\ serde = NoSerde
    /\ call = [step |-> "build", fn |-> "", arg |-> NoResult, cmd_exit |-> 0,
               result |-> NoResult, code |-> 0, cmd |-> "", exit |-> NoExit]

\* One of results.success, failure, error and command builds a Result and
\* its exit_code is read.
BuildResult ==
    /\ call.step = "build"
    /\ \E o \in Texts, e \in Texts :
          \/ \E r \in {[success(Text(o)) EXCEPT !.stderr = Text(e)]} :
                call' = [call EXCEPT !.step = "built", !.fn = "success",
                                     !.result = r, !.code = exit_code(r)]
          \/ \E r \in {[failure(Text(e)) EXCEPT !.stdout = Text(o)]} :
                call' = [call EXCEPT !.step = "built", !.fn = "failure",
                                     !.result = r, !.code = exit_code(r)]
          \/ \E x \in Excs :
             \E r \in {[error(x, Text(e)) EXCEPT !.stdout = Text(o)]} :
                call' = [call EXCEPT !.step = "built", !.fn = "error",
                                     !.result = r, !.code = exit_code(r)]
          \/ \E c \in ExitCodes :
             \E r \in {command([exit_code |-> c, stdout |-> Text(o),
                                stderr |-> Text(e)])} :
                call' = [call EXCEPT !.step = "built", !.fn = "command",
                                     !.cmd_exit = c,
                                     !.result = r, !.code = exit_code(r)]
    /\ UNCHANGED <<mainVars, sw, serde>>

\* results.inverse applied to the Result just built.
InverseResult ==
    /\ call.step = "built"
    /\ call' = [call EXCEPT !.step = "inverted", !.fn = "inverse",
                            !.arg = call.result,
                            !.result = inverse(call.result),
                            !.code = exit_code(inverse(call.result))]
    /\ UNCHANGED <<mainVars, sw, serde>>

\* A command of the command line whose action returned the Result:
\* exit_wrapper(results.logger(action)).
CliExit ==
    /\ call.step \in {"built", "inverted"}
    /\ \E c \in Commands :
          call' = [call EXCEPT !.step = "exited", !.cmd = c,
                               !.exit = exit_wrapper(logger(call.result))]
    /\ UNCHANGED <<mainVars, sw, serde>>

NextResult == BuildResult \/ InverseResult \/ CliExit

SpecResult == InitResult /\ [][NextResult]_vars

(* --------------------------- VersionControl.get ------------------------ *)
\* defaults.VCS_DEPTH
VCS_DEPTH == 20
\* Values of options.depth.
Depths == {1, VCS_DEPTH}

\* git VersionControl.is_repo_path: dst/.git exists.
is_repo_path(dst) == dst.git

\* Nothing at dst.
NoDst == [git |-> FALSE, low |-> 0, tip |-> 0, head |-> 0]

\* Oldest commit a clone of the given depth holds.
Shallow(latest, depth) == IF latest - depth + 1 > 1 THEN latest - depth + 1 ELSE 1

\* `git checkout <ref>` in dst succeeds for HEAD and for a commit dst holds.
CanCheckoutIn(dst, ref) == ref = HEAD \/ (ref \in Commits /\ dst.low <= ref /\ ref <= dst.tip)

\* vc.get(src, dst, ref, options) is called: the remote is at `latest`, dst
\* is either nothing or a repository holding commits low..tip with one of
\* them checked out.
InitGet ==
    /\ MainInit
    /\ sw = NoSwitch
    /\ serde = NoSerde
    /\ \E src \in SrcValues, ref \in {NoRef} \cup SwitchRefs, depth \in Depths,
          latest \in Commits :
       \E dst \in {NoDst} \cup
                  {[git |-> TRUE, low |-> l, tip |-> t, head |-> h] :
                      l \in 1..latest, t \in 1..latest, h \in 1..latest} :
          /\ dst.git => (dst.low <= dst.head /\ dst.head <= dst.tip)
          /\ call = [step |-> "get", src |-> src, arg |-> ref, ref |-> ref,
                     depth |-> depth, latest |-> latest, was |-> dst, dst |-> dst,
                     branch |-> "", ops |-> <<>>, cloned |-> 0,
                     out |-> "none", exc |-> ""]

GetRaise(c, exc) == [c EXCEPT !.step = "done", !.out = "raised", !.exc = exc]
GetReturn(c) == [c EXCEPT !.step = "done", !.out = "returned"]

\* get: ref = safe_ref(ref), then local or remote by is_repo_path(dst).
GetStart ==
    /\ call.step = "get"
    /\ call' = [call EXCEPT !.ref = safe_ref(call.arg),
                            !.branch = IF is_repo_path(call.dst) THEN "reuse" ELSE "fresh",
                            !.step = IF is_repo_path(call.dst) THEN "update" ELSE "clone"]
    /\ UNCHANGED <<mainVars, sw, serde>>

\* local: repo.update() begins with `git checkout <options.branch>`.
LocalUpdate ==
    /\ call.step = "update"
    /\ \/ call' = [call EXCEPT !.ops = Append(@, "checkout_branch"),
                               !.dst.head = call.dst.tip,
                               !.step = "pull"]
       \/ call' = GetRaise([call EXCEPT !.ops = Append(@, "checkout_branch")],
                           "ErrorReturnCode")
    /\ UNCHANGED <<mainVars, sw, serde>>

\* local without the pull of repo.update().
LocalPull_Skip ==
    /\ call.step = "pull"
    /\ call' = [call EXCEPT !.step = "checkout"]
    /\ UNCHANGED <<mainVars, sw, serde>>

\* local: repo.update() ends with `git pull`.
LocalPull ==
    /\ call.step = "pull"
    /\ \/ call' = [call EXCEPT !.ops = Append(@, "pull"),
                               !.dst.tip = call.latest,
                               !.dst.head = call.latest,
                               !.step = "checkout"]
       \/ call' = GetRaise([call EXCEPT !.ops = Append(@, "pull")], "ErrorReturnCode")
    /\ UNCHANGED <<mainVars, sw, serde>>

\* remote: `git clone <src> <dst> --depth <options.depth>`.
RemoteClone ==
    /\ call.step = "clone"
    /\ \/ call' = [call EXCEPT !.ops = Append(@, "clone"),
                               !.cloned = call.depth,
                               !.dst = [git |-> TRUE,
                                        low |-> Shallow(call.latest, call.depth),
                                        tip |-> call.latest, head |-> call.latest],
                               !.step = "checkout"]
       \/ call' = GetRaise([call EXCEPT !.ops = Append(@, "clone")], "ErrorReturnCode")
    /\ UNCHANGED <<mainVars, sw, serde>>

\* local and remote: `if ref:` checkout of ref, then the handle is returned.
GetCheckout ==
    /\ call.step = "checkout"
    /\ IF CanCheckoutIn(call.dst, call.ref)
       THEN call' = GetReturn([call EXCEPT !.ops = Append(@, "checkout_ref"),
                                           !.dst.head = CheckoutCommit(call.dst.head, call.ref)])
       ELSE call' = GetRaise([call EXCEPT !.ops = Append(@, "checkout_ref")],
                             "ErrorReturnCode")
    /\ UNCHANGED <<mainVars, sw, serde>>

NextGet == GetStart \/ LocalUpdate \/ LocalPull \/ RemoteClone \/ GetCheckout

SpecGet == InitGet /\ [][NextGet]_vars

(* ------------------- Repository queries and patches -------------------- *)
\* Working tree and index of a repository, relative to its HEAD.
WorkStates == {"asHead", "edited", "patched", "conflict", "untracked"}
\* A patch against the repository: it applies, it conflicts with the
\* content it meets, or it is no patch at all.
PatchKinds == {"applies", "conflicts", "corrupt"}

\* A git command that ran and exited with 0 (sh raises for anything else).
Ran == [exit_code |-> 0, stdout |-> Text(""), stderr |-> Text("")]

\* results.wrapper around a method that returned: a RunningCommand becomes
\* results.command of it, a Result is handed on.
wrapped(ret) == IF "exit_code" \in DOMAIN ret THEN command(ret) ELSE ret

\* git Repository.is_clean
is_clean(work) == wrapped(inverse(wrapped(is_dirty(work))))

\* git Repository.check_patch: `git apply --check` with the patch on stdin.
check_patch(patch) ==
    IF patch = "applies" THEN wrapped(Ran) ELSE wrapper("ErrorReturnCode")

\* A repository with some working tree state and a patch at hand.
InitRepoCall ==
    /\ MainInit
    /\ sw = NoSwitch
    /\ serde = NoSerde
    /\ \E w \in WorkStates, n \in 0..MaxProjCommits, k \in PatchKinds :
          call = [step |-> "ready", fn |-> "", work |-> w, commits |-> n,
                  patch |-> k, before |-> [work |-> w, commits |-> n],
                  out |-> NoResult]

RepoCalled(c, fn, out) ==
    [c EXCEPT !.step = "called", !.fn = fn, !.out = out,
              !.before = [work |-> call.work, commits |-> call.commits]]

RepoIsDirty ==
    /\ call.step = "ready"
    /\ call' = RepoCalled(call, "is_dirty", wrapped(is_dirty(call.work)))
    /\ UNCHANGED <<mainVars, sw, serde>>

RepoIsClean ==
    /\ call.step = "ready"
    /\ call' = RepoCalled(call, "is_clean", is_clean(call.work))
    /\ UNCHANGED <<mainVars, sw, serde>>

RepoCheckPatch ==
    /\ call.step = "ready"
    /\ call' = RepoCalled(call, "check_patch", check_patch(call.patch))
    /\ UNCHANGED <<mainVars, sw, serde>>

\* git Repository.apply_patch: `git apply --3way`, then `git commit`; the
\* first leaves conflict markers behind when the patch conflicts, the
\* second may fail with the patch applied.
RepoApplyPatch ==
    /\ call.step = "ready"
    /\ \/ /\ call.patch = "applies"
          /\ call.commits < MaxProjCommits
          /\ call' = RepoCalled([call EXCEPT !.work = "asHead", !.commits = @ + 1],
                             "apply_patch", wrapped(Ran))
       \/ /\ call.patch = "applies"
          /\ call' = RepoCalled([call EXCEPT !.work = "patched"],
                             "apply_patch", wrapper("ErrorReturnCode"))
       \/ /\ call.patch = "conflicts"
          /\ call' = RepoCalled([call EXCEPT !.work = "conflict"],
                             "apply_patch", wrapper("ErrorReturnCode"))
       \/ /\ call.patch = "corrupt"
          /\ call' = RepoCalled(call, "apply_patch", wrapper("ErrorReturnCode"))
    /\ UNCHANGED <<mainVars, sw, serde>>

\* The caller goes on with the repository as it is now and another patch.
RepoNext ==
    /\ call.step = "called"
    /\ \E k \in PatchKinds :
          call' = [call EXCEPT !.step = "ready", !.fn = "", !.patch = k,
                               !.out = NoResult,
                               !.before = [work |-> call.work, commits |-> call.commits]]
    /\ UNCHANGED <<mainVars, sw, serde>>

NextRepoCall == RepoIsDirty \/ RepoIsClean \/ RepoCheckPatch \/ RepoApplyPatch \/ RepoNext

SpecRepoCall == InitRepoCall /\ [][NextRepoCall]_vars

(* ------------------------------- graft --------------------------------- *)
\* Paths relative to the root of a directory tree, as sequences of names:
\* two files and a directory `docs` with two files in it.
Paths == {<<"a">>, <<"x.pyc">>, <<"docs">>, <<"docs", "c">>, <<"docs", "y.pyc">>}
Parent(path) == SubSeq(path, 1, Len(path) - 1)
\* Directory trees: every entry lies in a directory of the tree.
Trees == {t \in SUBSET Paths : \A path \in t : Len(path) > 1 => Parent(path) \in t}
IsDir(path) == path = <<"docs">>
\* os.path.exists of a relative path under a tree's root.
PathExists(tree, path) == path = <<>> \/ path \in tree

\* fnmatch.fnmatch(name, pattern)
fnmatch(name, pattern) ==
    IF pattern = "*.pyc" THEN name \in {"x.pyc", "y.pyc"} ELSE name = pattern

\* ignore.is_ignored
is_ignored(name, patterns) == \E pattern \in patterns : fnmatch(name, pattern)

\* ignore_names(src_dir, names) of ignore.ignore_names_missing, with
\* rel_dir the directory relative to src.
ignore_names(layout, patterns, rel_dir, names) ==
    IF ~PathExists(layout, rel_dir)
    THEN names
    ELSE {name \in names : \/ ~PathExists(layout, Append(rel_dir, name))
                           \/ is_ignored(name, patterns)}

\* ignore.ignore_names_missing(layout, src, options) called with `args`:
\* a call with other than three arguments raises TypeError.
ignore_names_missing(args) ==
    IF Len(args) # 3
    THEN [exc |-> "TypeError"]
    ELSE [exc |-> "", layout |-> args[1], src |-> args[2], patterns |-> args[3]]

\* shutil.copytree(src, dst, ignore=...): the entries of each directory
\* that the ignore function does not name are copied, directories with
\* their content treated the same way.
RECURSIVE copytree(_, _, _)
copytree(src, ignore, dir) ==
    LET names == {name \in {path[Len(path)] : path \in src} : Append(dir, name) \in src}
        kept == names \ ignore_names(ignore.layout, ignore.patterns, dir, names)
    IN  {Append(dir, name) : name \in kept}
        \cup UNION {copytree(src, ignore, Append(dir, name)) :
                       name \in {n \in kept : IsDir(Append(dir, n))}}

\* porcelain.graft(layout, src, dst, options) is called on an empty dst.
InitGraft ==
    /\ MainInit
    /\ sw = NoSwitch
    /\ serde = NoSerde
    /\ \E layout \in Trees, src \in Trees, patterns \in SUBSET Patterns :
          call = [step |-> "graft", layout |-> layout, src |-> src,
                  patterns |-> patterns, dst |-> {}, out |-> "none", exc |-> ""]

\* porcelain.graft: the ignore function is built by
\* ignore.ignore_names_missing(layout, options), then copytree runs.
Graft ==
    /\ call.step = "graft"
    /\ LET ignore == ignore_names_missing(<<call.layout, call.patterns>>)
       IN  call' = IF ignore.exc # ""
                   THEN [call EXCEPT !.step = "done", !.out = "raised",
                                     !.exc = ignore.exc]
                   ELSE [call EXCEPT !.step = "done", !.out = "returned",
                                     !.dst = copytree(call.src, ignore, <<>>)]
    /\ UNCHANGED <<mainVars, sw, serde>>

NextGraft == Graft

SpecGraft == InitGraft /\ [][NextGraft]_vars

(* ------------------------- unidiff Comparison.run ---------------------- *)
\* Texts are sequences of characters.  Root directories of a tree: "/r",
\* "/rs" (of which "/r" is a prefix), "/s" and "/x".
Roots == {<<"/", "r">>, <<"/", "r", "s">>, <<"/", "s">>, <<"/", "x">>}
\* Content of the one file "f" of a tree: two plain texts and a text that
\* spells a root path.
Contents == {<<"k">>, <<"m">>, <<"/", "r">>}

\* str.replace(old, ''): the non-overlapping occurrences of old, found
\* left to right, are removed.
RECURSIVE replace(_, _)
replace(s, old) ==
    IF Len(s) < Len(old) THEN s
    ELSE IF SubSeq(s, 1, Len(old)) = old
         THEN replace(SubSeq(s, Len(old) + 1, Len(s)), old)
         ELSE <<s[1]>> \o replace(Tail(s), old)

\* `old in s`
Contains(s, old) ==
    \E i \in 1..(Len(s) - Len(old) + 1) : SubSeq(s, i, i + Len(old) - 1) = old

\* Output of `git diff --no-index first second` for trees holding file "f"
\* with content old under first and now under second: nothing when they are
\* equal, otherwise the header naming both paths and the changed lines.
git_diff(first, second, old, now) ==
    IF old = now THEN <<>>
    ELSE <<"a">> \o first \o <<"/", "f", " ", "b">> \o second \o <<"/", "f", "-">>
         \o old \o <<"+">> \o now

\* Comparison.run: stdout.replace(first, '').replace(second, '')
run(first, second, old, now) ==
    replace(replace(git_diff(first, second, old, now), first), second)

\* The same pair of trees is placed under two pairs of root directories.
InitCompare ==
    /\ MainInit
    /\ sw = NoSwitch
    /\ serde = NoSerde
    /\ \E old \in Contents, now \in Contents :
       \E f1 \in Roots, s1 \in Roots, f2 \in Roots, s2 \in Roots :
          /\ f1 # s1
          /\ f2 # s2
          /\ call = [step |-> "compare", old |-> old, now |-> now,
                     first |-> <<f1, f2>>, second |-> <<s1, s2>>,
                     content |-> <<>>]

\* compare(first, second) on the next placement of the trees.
CompareRun ==
    /\ call.step = "compare"
    /\ Len(call.content) < 2
    /\ LET k == Len(call.content) + 1
       IN  call' = [call EXCEPT !.content =
                       Append(@, run(call.first[k], call.second[k], call.old, call.now)),
                                !.step = IF k = 2 THEN "done" ELSE "compare"]
    /\ UNCHANGED <<mainVars, sw, serde>>

NextCompare == CompareRun

SpecCompare == InitCompare /\ [][NextCompare]_vars

(* ---------------------- comparison and options.ignore ------------------- *)
\* Names of the files of the compared trees: one matches the pattern
\* "*.pyc", one matches none.
ComparedFiles == {"a", "x.pyc"}
FileStates == {AbsentFile, [ver |-> 1, var |-> DefaultVar], [ver |-> 2, var |-> DefaultVar]}

\* Two trees and a Comparison whose ignore holds some patterns.
InitIgnore ==
    /\ MainInit
    /\ sw = NoSwitch
    /\ serde = NoSerde
    /\ \E first \in [ComparedFiles -> FileStates], second \in [ComparedFiles -> FileStates],
          patterns \in SUBSET Patterns :
          call = [step |-> "diff", first |-> first, second |-> second,
                  ignore |-> patterns, diff |-> {}, diff_files |-> {}]

\* porcelain.diff(first, second, options): comparison.compare, which does
\* not read options.
PorcelainDiff ==
    /\ call.step = "diff"
    /\ call' = [call EXCEPT !.step = "diff_files",
                            !.diff = Compare(call.first, call.second)]
    /\ UNCHANGED <<mainVars, sw, serde>>

\* porcelain.diff_files(first, second, options): comparison.compare_files,
\* which does not read options.
PorcelainDiffFiles ==
    /\ call.step = "diff_files"
    /\ call' = [call EXCEPT !.step = "done",
                            !.diff_files = CompareFiles(call.first, call.second)]
    /\ UNCHANGED <<mainVars, sw, serde>>

NextIgnore == PorcelainDiff \/ PorcelainDiffFiles

SpecIgnore == InitIgnore /\ [][NextIgnore]_vars

(* ----------------------- two syncs on one project ---------------------- *)
\* Two sync processes run on the same linked project.
Procs == {1, 2}

NoProc == [pc |-> "read", dirty |-> "none", early |-> FALSE, applied |-> FALSE,
           out |-> "none"]

\* A clean project linked at some commit of a template whose remote is at
\* `latest`; both processes have just been started.
InitRace ==
    /\ MainInit
    /\ sw = NoSwitch
    /\ serde = NoSerde
    /\ \E ref \in Commits, latest \in Commits :
          /\ ref <= latest
          /\ call = [step |-> "race", work |-> "asHead", commits |-> 0,
                     ref |-> ref, latest |-> latest,
                     procs |-> [p \in Procs |-> NoProc]]

Step(p, fields) == [call EXCEPT !.procs[p] = fields]
Ended(p, out) == [call.procs[p] EXCEPT !.pc = "done", !.out = out]
At(p, pc_) == [call.procs[p] EXCEPT !.pc = pc_]

\* sync.py:30: config.read(src); the record is there.
RaceRead(p) ==
    /\ call.procs[p].pc = "read"
    /\ call' = Step(p, At(p, "repo"))
    /\ UNCHANGED <<mainVars, sw, serde>>

\* sync.py:33-37: porcelain.repo, i.e. checkout and pull in the live
\* project, either of which may fail.
RaceRepo(p) ==
    /\ call.procs[p].pc = "repo"
    /\ \/ call' = Step(p, At(p, "is_dirty"))
       \/ call' = Step(p, Ended(p, "raised"))
    /\ UNCHANGED <<mainVars, sw, serde>>

\* The dirty check taking a lock file in the project when it finds the
\* tree clean.
RaceIsDirty_Lock(p) ==
    /\ call.procs[p].pc = "is_dirty"
    /\ IF is_dirty(call.work).success
       THEN call' = Step(p, [Ended(p, "failure") EXCEPT !.dirty = "dirty"])
       ELSE call' = [Step(p, [At(p, "status") EXCEPT !.dirty = "clean",
                         !.early = \A q \in Procs : ~call.procs[q].applied])
                     EXCEPT !.work = "untracked"]
    /\ UNCHANGED <<mainVars, sw, serde>>

\* sync.py:41-46: repo.is_dirty() reads the status of the working tree; a
\* dirty tree ends sync with a failure, a clean one lets it go on.
RaceIsDirty(p) ==
    /\ call.procs[p].pc = "is_dirty"
    /\ IF is_dirty(call.work).success
       THEN call' = Step(p, [Ended(p, "failure") EXCEPT !.dirty = "dirty"])
       ELSE call' = Step(p, [At(p, "status") EXCEPT !.dirty = "clean",
                         !.early = \A q \in Procs : ~call.procs[q].applied])
    /\ UNCHANGED <<mainVars, sw, serde>>

\* sync.py:48-61: clone at the recorded ref into the scratch directory and
\* porcelain.status; up to date ends sync.
RaceStatus(p) ==
    /\ call.procs[p].pc = "status"
    /\ \/ call' = Step(p, IF same(Status(call.ref, call.latest))
                          THEN Ended(p, "success") ELSE At(p, "diff"))
       \/ call' = Step(p, Ended(p, "raised"))
    /\ UNCHANGED <<mainVars, sw, serde>>

\* sync.py:63-100: clone of the target, context, the two renders and the
\* diff, all inside the scratch directory.
RaceDiff(p) ==
    /\ call.procs[p].pc = "diff"
    /\ \/ call' = Step(p, At(p, "apply"))
       \/ call' = Step(p, Ended(p, "raised"))
    /\ UNCHANGED <<mainVars, sw, serde>>

\* sync.py:102-108: porcelain.patch -> repo.apply_patch is invoked; its
\* `git apply --3way` patches tree and index, conflicts, or rejects.
RaceApply(p) ==
    /\ call.procs[p].pc = "apply"
    /\ \/ call' = [Step(p, [At(p, "commit") EXCEPT !.applied = TRUE])
                   EXCEPT !.work = "patched"]
       \/ call' = [Step(p, [Ended(p, "raised") EXCEPT !.applied = TRUE])
                   EXCEPT !.work = "conflict"]
       \/ call' = Step(p, [Ended(p, "raised") EXCEPT !.applied = TRUE])
    /\ UNCHANGED <<mainVars, sw, serde>>

\* apply_patch's `git commit`, then sync returns success.
RaceCommit(p) ==
    /\ call.procs[p].pc = "commit"
    /\ \/ /\ call.commits < MaxProjCommits
          /\ call.work = "patched"
          /\ call' = [Step(p, Ended(p, "success"))
                      EXCEPT !.work = "asHead", !.commits = @ + 1]
       \/ call' = Step(p, Ended(p, "raised"))
    /\ UNCHANGED <<mainVars, sw, serde>>

NextRace ==
    \E p \in Procs :
       \/ RaceRead(p) \/ RaceRepo(p) \/ RaceIsDirty(p) \/ RaceStatus(p)
       \/ RaceDiff(p) \/ RaceApply(p) \/ RaceCommit(p)

SpecRace == InitRace /\ [][NextRace]_vars

(* ---------------------------- subject_line ----------------------------- *)
\* Strings are sequences of characters: two letters and the line break.
Chars == {"a", "b", "\n"}
Strings == UNION {[1..k -> Chars] : k \in 0..MaxLen}
\* Truncation markers: none, '.' and '..'.
Suffixes == {<<>>, <<".">>, <<".", ".">>}

\* s.index(c): position of the first c counted from 0, -1 standing for
\* the ValueError raised when there is none.
index(s, c) ==
    IF \E i \in 1..Len(s) : s[i] = c
    THEN (CHOOSE i \in 1..Len(s) : s[i] = c /\ \A j \in 1..(i - 1) : s[j] # c) - 1
    ELSE -1

\* s[:k], a negative k counting from the end.
Slice(s, k) ==
    IF k >= 0 THEN SubSeq(s, 1, IF k < Len(s) THEN k ELSE Len(s))
    ELSE SubSeq(s, 1, IF Len(s) + k > 0 THEN Len(s) + k ELSE 0)

\* utils.truncate without the room made for the suffix.
truncate_NoRoom(s, n, suffix) ==
    IF Len(s) <= n THEN s ELSE Slice(s, n) \o suffix

\* utils.truncate
truncate(s, n, suffix) ==
    IF Len(s) <= n THEN s ELSE Slice(s, n - Len(suffix)) \o suffix

\* utils.subject_line
subject_line(s, n, suffix) ==
    IF index(s, "\n") = -1
    THEN truncate(s, n, suffix)
    ELSE IF index(s, "\n") <= n
         THEN Slice(s, index(s, "\n"))
         ELSE truncate(s, n, suffix)

InitSubject ==
    /\ MainInit
    /\ sw = NoSwitch
    /\ serde = NoSerde
    /\ \E s \in Strings, n \in 0..MaxLen, suffix \in Suffixes :
          call = [step |-> "subject", s |-> s, n |-> n, suffix |-> suffix,
                  out |-> <<>>]

\* subject_line(s, n, suffix) is called.
SubjectLine ==
    /\ call.step = "subject"
    /\ call' = [call EXCEPT !.step = "done",
                            !.out = subject_line(call.s, call.n, call.suffix)]
    /\ UNCHANGED <<mainVars, sw, serde>>

NextSubject == SubjectLine

SpecSubject == InitSubject /\ [][NextSubject]_vars

(* ------------------------------ properties ----------------------------- *)
Rendered == Called("render")
Compared == Called("compare") \/ Called("compare_files")
Patched == Called("apply_patch")
Returned == pc = "done" /\ result.kind = "result"

C2_Ordering ==
    /\ [][(op \in {"init", "sync"} /\ record' # record) =>
            \/ (op = "init" /\ pc = "write" /\ Len(loc.renders) = 1)
            \/ (op = "sync" /\ loc.patch = "committed")]_vars
    /\ []((pc = "done" /\ op \in {"init", "sync"} /\ ~result.success
              /\ ~Called("config.write"))
             => record = start.record)

\* An init that rendered and then wrote a state file that differs from the
\* one it found.
C2_Witness ==
    /\ op = "init"
    /\ pc = "done"
    /\ result.success
    /\ Rendered
    /\ record # start.record

\* C3: a sync of a clean project recorded at A, toward the template's
\* latest B # A, that applied the patch and returned success leaves the
\* project with one new commit and the state file's ref equal to B.
C3_SyncRecordsTarget ==
    (/\ op = "sync"
     /\ Returned
     /\ result.success
     /\ loc.patch = "committed"
     /\ loc.ref \in {NoRef, HEAD})
        => /\ projCommits = start.commits + 1
           /\ record.ref = tmplLatest

\* C4: once apply_patch has finished, the project is either patched and
\* committed, or its working tree, index and history are as before the call.
C4_AllOrNothing ==
    (op = "sync" /\ pc = "done" /\ Patched)
        => \/ (loc.patch = "committed" /\ projWork = "asHead"
                 /\ projCommits = start.commits + 1)
           \/ (projWork = "asHead" /\ projCommits = start.commits)

\* C5: a sync that ends in the dirty failure has run no checkout, no pull,
\* no patch application, no commit and no state file write.
C5_DirtyFailureNoMutation ==
    (op = "sync" /\ pc = "done" /\ loc.dirty.success)
        => /\ ~Called("checkout")
           /\ ~Called("pull")
           /\ ~Patched
           /\ projCommits = start.commits
           /\ record = start.record

\* C6: whenever sync has terminated, the live project is on the reference
\* that was checked out when sync started.
C6_SameReference ==
    (op = "sync" /\ pc = "done") => projBranch = start.branch

\* C7 as stated: whenever the commit at the recorded ref is the remote
\* latest commit, the Result of status and of sync is success and no
\* render, comparison or patch application was made.
C7_NoOpConvergence ==
    (/\ op \in {"status", "sync"}
     /\ Returned
     /\ loc.state.exists
     /\ ResolveRef(loc.state.ref, tmplLatest) = tmplLatest)
        => (result.success /\ ~Rendered /\ ~Compared /\ ~Patched)

\* C7 amended: a status or sync whose recorded commit is the remote latest
\* never renders, compares or patches; once its status comparison has
\* found the two equal it has returned success; and sync on a dirty tree
\* returns the dirty failure before that comparison is made.
C7_NoOpWhenCompared ==
    /\ (/\ op \in {"status", "sync"}
        /\ loc.state.exists
        /\ ResolveRef(loc.state.ref, tmplLatest) = tmplLatest)
           => (~Rendered /\ ~Compared /\ ~Patched)
    /\ (/\ op \in {"status", "sync"}
        /\ Called("status")
        /\ loc.status.local_ref = loc.status.remote_ref)
           => (Returned /\ result.success /\ result.stdout.text = "up-to-date")
    /\ (/\ op = "sync"
        /\ Returned
        /\ ~result.success
        /\ loc.state.exists)
           => (loc.dirty.success /\ ~Called("status"))

\* A sync on a clean project that found the recorded commit to be the
\* latest and returned.
C7_Witness ==
    /\ op = "sync"
    /\ pc = "done"
    /\ Called("status")
    /\ loc.status.local_ref = loc.status.remote_ref
    /\ result.success

\* C8: a status that computed the two refs returns success exactly when
\* they are equal (local is the commit of the recorded ref, remote the
\* template's latest); otherwise its Result is a failure without error
\* whose message has the status message, the names of the files that
\* differ between the two renders, and the guidance; and status never
\* returns success without having found them equal.
C8_StatusResult ==
    /\ (op = "status" /\ Returned /\ Called("status"))
          => /\ loc.status.local_ref = ResolveRef(record.ref, tmplLatest)
             /\ loc.status.remote_ref = tmplLatest
             /\ result.success <=> (loc.status.local_ref = loc.status.remote_ref)
             /\ ~result.success =>
                  /\ result.error = ""
                  /\ result.stderr.tag = "status"
                  /\ result.stderr.local = loc.status.local_ref
                  /\ result.stderr.remote = loc.status.remote_ref
                  /\ result.stderr.text = "out-of-date; run diff or sync"
                  /\ {x.file : x \in result.stderr.files} =
                        {f \in Files :
                            RenderTree(loc.status.local_ref, loc.context.variables)[f]
                          # RenderTree(loc.status.remote_ref, loc.context.variables)[f]}
    /\ (op = "status" /\ Returned /\ result.success)
          => (Called("status") /\ loc.status.local_ref = loc.status.remote_ref)

\* A status that found the project out of date and listed a changed file.
C8_Witness ==
    /\ op = "status"
    /\ pc = "done"
    /\ result.kind = "result"
    /\ ~result.success
    /\ Called("status")
    /\ result.stderr.files # {}

\* C9: no step of status, diff or drift changes the state file or the live
\* project, and a status run that follows a status run with no template
\* change in between returns the same Result.
C9_ReadOnly ==
    /\ [][(op \in {"status", "diff", "drift"}) => UNCHANGED <<record, projVars>>]_vars
    /\ []((op = "status" /\ Returned /\ lastStatus.valid)
             => result = lastStatus.result)

\* A second status run in a row, reporting out of date again, on a project
\* that is not on master.
C9_Witness ==
    /\ op = "status"
    /\ pc = "done"
    /\ result.kind = "result"
    /\ ~result.success
    /\ lastStatus.valid
    /\ projBranch = "feature"

\* C10: in diff, sync and status, by the time anything is rendered exactly
\* one context has been generated, from the state file's variables, and
\* every render received that one context object.
C10_SharedContext ==
    (op \in {"diff", "sync", "status"} /\ Len(loc.renders) >= 1)
        => /\ loc.contexts = 1
           /\ loc.context.id = 1
           /\ loc.context.variables \in
                 ContextVariables(record.variables,
                                  IF op = "status" THEN FALSE ELSE loc.interactive)
           /\ \A i \in 1..Len(loc.renders) :
                 /\ loc.renders[i].ctx = loc.context
                 /\ loc.renders[i].tree =
                       RenderTree(loc.renders[i].commit, loc.context.variables)
           /\ Len(loc.renders) = 2 =>
                 /\ loc.renders[1].commit = loc.current.commit
                 /\ loc.renders[2].commit = loc.target.commit

\* An interactive sync that has made both renders.
C10_Witness ==
    /\ op = "sync"
    /\ loc.interactive
    /\ Len(loc.renders) = 2
    /\ loc.renders[1].commit # loc.renders[2].commit

\* C11: whenever a switch_to scope has been left (its body completed, its
\* body raised, or its own checkout failed) the repository is on the
\* commit it was on when that scope was entered: with no scope open it is
\* on the commit from before the outermost switch, and inside an enclosing
\* scope it is on the commit that scope switched to, so nested scopes
\* restore in reverse order and a later switch starts where the first did.
C11_ScopedSwitch ==
    /\ (sw.scopes > 0 /\ sw.stack = <<>>) => sw.head = sw.base
    /\ sw.stack # <<>> => sw.head = sw.stack[Len(sw.stack)].at

\* Two nested scopes that had moved the repository were left by an
\* exception raised in the inner body, and then a scope whose own checkout
\* failed was entered and left.
C11_Witness ==
    /\ sw.stack = <<>>
    /\ Len(sw.left) = 3
    /\ sw.left[1].depth = 2 /\ sw.left[1].how = "raised" /\ sw.left[1].moved
    /\ sw.left[2].depth = 1 /\ sw.left[2].how = "raised" /\ sw.left[2].moved
    /\ sw.left[3].how = "checkout_failed"
    /\ sw.head = sw.base

\* C12: when an action has ended, by returning a success, a failure or an
\* error Result or by a step inside the scratch block raising, and while
\* no action is running, no scratch directory exists.
C12_ScratchReleased ==
    (pc \in {"done", "idle"}) => ~scratch

\* A sync whose patch application raised inside the scratch block, after
\* both clones had been made in the scratch directory.
C12_Witness ==
    /\ op = "sync"
    /\ pc = "done"
    /\ Patched
    /\ result.kind = "raised"
    /\ loc.current # NoClone
    /\ loc.target # NoClone
    /\ ~scratch

\* C13: every action that has ended has handed back a Result; no
\* exception has left the wrapped action.
C13_NoEscape ==
    (pc = "done") => result.kind = "result"

\* C14: an action that ended otherwise than with a success Result leaves
\* the state file exactly as it was when the action started (absent if it
\* was absent).
C14_NoPartialRecord ==
    (pc = "done" /\ ~(result.kind = "result" /\ result.success))
        => record = start.record

\* C15: with no state file, status, diff, drift and sync end right after
\* config.read with an unsuccessful Result carrying StateFileNotFound,
\* having made no other call and entered no scratch block.
C15_NotFound ==
    (/\ op \in {"status", "diff", "drift", "sync"}
     /\ ~start.record.exists
     /\ pc # "read")
        => /\ Returned
           /\ ~result.success
           /\ result.error = "StateFileNotFound"
           /\ result.stderr.tag = "not_found"
           /\ calls = <<"config.read">>
           /\ ~scratch
           /\ record = start.record
           /\ projDir = start.dir /\ projBranch = start.branch
           /\ projWork = start.work /\ projCommits = start.commits

\* A drift run in a git repository that has no state file.
C15_Witness ==
    /\ op = "drift"
    /\ pc = "done"
    /\ start.dir = "repo"
    /\ ~start.record.exists
    /\ result.error = "StateFileNotFound"

MissingFields(file) ==
    IF "template" \in file.has THEN FieldNames \ file.has
    ELSE {"template"} \cup ({"meta"} \ file.has)

\* C16: config.read of no file raises StateFileNotFound, of content that
\* is not JSON StateFileMalformed, and of a JSON object lacking any of
\* template, template.src, template.vcs, template.comparison,
\* template.engine, template.patch or meta StateFileFieldMissing naming a
\* key that is absent.
C16_LoadErrors ==
    (serde.step = "read") =>
        /\ serde.file.kind = "absent" => serde.out = Raises("StateFileNotFound", "")
        /\ serde.file.kind = "garbage" => serde.out = Raises("StateFileMalformed", "")
        /\ (serde.file.kind = "object" /\ MissingFields(serde.file) # {})
              => /\ serde.out.kind = "raised"
                 /\ serde.out.exc = "StateFileFieldMissing"
                 /\ serde.out.field \in MissingFields(serde.file)

\* A State every part of which is supported: src_to_path converts the
\* source and each for_type finds the implementation.
Valid(st) ==
    /\ src_to_path(st.src) = "path"
    /\ vcs_for_type(st.vcs) = "ok"
    /\ templates_for_type(st.engine) = "ok"
    /\ comparisons_for_type(st.comparison) = "ok"

\* C17: for every valid State, State.decode(state.encode()) returns a
\* State equal to it.
C17_RoundTrip ==
    (serde.step = "decoded" /\ Valid(serde.state))
        => /\ serde.out.kind = "state"
           /\ serde.out.state = serde.state

\* C18: reading a state file that has every key but whose source
\* src_to_path rejects, or one of whose vcs, engine or comparison types
\* for_type rejects, raises instead of returning a State.
C18_DecodeValidates ==
    (/\ serde.step = "read"
     /\ serde.file.kind = "object"
     /\ serde.file.has = FieldNames
     /\ ~Valid(new(serde.file.src, serde.file.ref, serde.file.vcs,
                   serde.file.engine, serde.file.comparison)))
        => serde.out.kind = "raised"

\* C21: link never renders and never patches; in the destination it changes
\* nothing but the record file (written by config.write, at dst itself when
\* nothing was there), and after a successful link the record holds the
\* commit id the requested reference resolved to and the variables of the
\* generated context.
C21_LinkOnlyWritesRecord ==
    op = "link"
        => /\ ~Rendered
           /\ ~Patched
           /\ projBranch = start.branch
           /\ projWork = start.work
           /\ projCommits = start.commits
           /\ \/ projDir = start.dir
              \/ start.dir = "absent" /\ projDir = "file" /\ Called("config.write")
           /\ record # start.record => Called("config.write")
           /\ (Returned /\ result.success)
                 => /\ record = StateRecord(loc.current.commit, loc.context.variables)
                    /\ record.ref = ResolveRef(loc.ref, tmplLatest)
                    /\ record.ref \in Commits

C21_Witness ==
    /\ op = "link"
    /\ Returned
    /\ result.success
    /\ start.dir = "repo"
    /\ start.work = "edited"
    /\ record # start.record
    /\ loc.ref = NoRef

\* C22: unlink calls nothing but the read of the record and the deletion of
\* the record file, and when no record exists it returns the not-found
\* error Result with the file system as it was.
C22_UnlinkOnlyReadsAndDeletes ==
    op = "unlink"
        => /\ \A i \in 1..Len(calls) : calls[i] \in {"config.read", "config.delete"}
           /\ (pc = "done" /\ ~start.record.exists)
                 => /\ Returned
                    /\ ~result.success
                    /\ result.error = "StateFileNotFound"
                    /\ Snapshot = start

\* C23: a record comes to exist only by a successful init or link and
\* ceases to exist only by a successful unlink; while none exists status,
\* diff, drift, sync and unlink end in the record-not-found error Result;
\* while one exists a load returns the ref and variables that were written.
C23_RecordLifecycle ==
    /\ [][(~record.exists /\ record'.exists)
             => /\ op \in {"init", "link"}
                /\ result'.kind = "result"
                /\ result'.success
                /\ record' = loc'.state]_vars
    /\ [][(record.exists /\ ~record'.exists)
             => /\ op = "unlink"
                /\ result'.kind = "result"
                /\ result'.success]_vars
    /\ [](op \in {"status", "diff", "drift", "sync", "unlink"} /\ pc # "read"
            => IF start.record.exists
               THEN loc.state.ref = start.record.ref
                    /\ loc.state.variables = start.record.variables
               ELSE /\ Returned
                    /\ ~result.success
                    /\ result.error = "StateFileNotFound")

\* C24: the exit_code of a Result is 0 exactly when it is successful,
\* whichever of success, failure, error, command and inverse built it
\* (success always gives 0, failure and error 1, command 0 exactly for a
\* command that exited with 0, inverse the opposite of its argument), and
\* the command-line wrapper raises an exit with a non-zero code exactly
\* when the Result is unsuccessful, the same for each of the seven commands.
C24_ExitCode ==
    call.step \in {"built", "inverted", "exited"}
        => /\ call.code = 0 <=> call.result.success
           /\ call.fn = "success" => call.code = 0
           /\ call.fn \in {"failure", "error"} => call.code # 0
           /\ call.fn = "command" => (call.code = 0 <=> call.cmd_exit = 0)
           /\ call.fn = "inverse" => (call.code = 0 <=> ~call.arg.success)
           /\ call.step = "exited"
                 => /\ call.exit.kind = "Exit" <=> ~call.result.success
                    /\ call.exit.kind = "Exit" => call.exit.code # 0
                    /\ call.exit.kind = "returned" <=> call.result.success

C24_Witness ==
    /\ call.step = "exited"
    /\ call.fn = "inverse"
    /\ call.cmd = "unlink"
    /\ call.arg.error = "OSError"
    /\ call.exit.kind = "returned"

\* C25: get takes the reuse branch exactly when dst already held a
\* repository and never clones there; otherwise it clones at the configured
\* depth and never pulls; in the reuse branch the checkout of ref comes
\* after the pull; and a handle that is returned is on the requested
\* commit, or on the remote's latest when no ref (or HEAD) was requested.
C25_Get ==
    call.step \in {"update", "pull", "clone", "checkout", "done"}
        => /\ call.branch = "reuse" <=> call.was.git
           /\ call.branch = "fresh" <=> ~call.was.git
           /\ call.branch = "reuse"
                 => /\ \A i \in 1..Len(call.ops) : call.ops[i] # "clone"
                    /\ \A i \in 1..Len(call.ops) :
                          call.ops[i] = "checkout_ref"
                             => \E j \in 1..(i - 1) : call.ops[j] = "pull"
           /\ call.branch = "fresh"
                 => /\ \A i \in 1..Len(call.ops) : call.ops[i] # "pull"
                    /\ call.ops # <<>> => call.ops[1] = "clone"
                    /\ call.cloned \in {0, call.depth}
                    /\ call.dst.git => call.cloned = call.depth
           /\ call.out = "returned"
                 => /\ call.dst.git
                    /\ call.dst.head = ResolveRef(call.arg, call.latest)

C25_Witness ==
    /\ call.step = "done"
    /\ call.out = "returned"
    /\ call.branch = "reuse"
    /\ call.was.tip < call.latest
    /\ call.arg \in Commits
    /\ call.arg > call.was.tip

\* C26: get for a locator that src_to_path cannot classify has run no
\* clone, pull or checkout and ends by raising TemplateSourceInvalid.
C26_InvalidSource ==
    (src_to_path(call.src) = "TemplateSourceInvalid" /\ call.step # "get")
        => /\ call.ops = <<>>
           /\ call.step = "done"
           /\ call.out = "raised"
           /\ call.exc = "TemplateSourceInvalid"

\* C27: check_patch leaves working tree, index and history as they were
\* and returns a Result that is successful exactly when the patch applies;
\* apply_patch returns an unsuccessful Result for a patch that conflicts.
C27_PatchResults ==
    call.step = "called"
        => /\ call.fn = "check_patch"
                 => /\ call.work = call.before.work
                    /\ call.commits = call.before.commits
                    /\ call.out.kind = "result"
                    /\ call.out.success <=> call.patch = "applies"
           /\ (call.fn = "apply_patch" /\ call.patch = "conflicts")
                 => /\ call.out.kind = "result"
                    /\ ~call.out.success

\* C28 as stated: is_dirty is successful exactly for a non-empty status
\* text and has that status text as stdout; is_clean is successful exactly
\* when is_dirty is not and has the same stdout.
C28_StatusStdout ==
    (call.step = "called" /\ call.fn \in {"is_dirty", "is_clean"})
        => /\ call.out.kind = "result"
           /\ call.out.stdout.text = StatusText(call.work)
           /\ call.fn = "is_dirty" => (call.out.success <=> StatusText(call.work) # "")
           /\ call.fn = "is_clean" => (call.out.success <=> StatusText(call.work) = "")

\* C28 amended: the stdout of both is the status text with leading and
\* trailing whitespace stripped; success of is_dirty is true exactly for a
\* non-empty status text and success of is_clean is its negation.
C28_StrippedStatusStdout ==
    (call.step = "called" /\ call.fn \in {"is_dirty", "is_clean"})
        => /\ call.out.kind = "result"
           /\ call.out.stdout.text = strip(StatusText(call.work))
           /\ call.out.stderr = NoMsg
           /\ call.out.error = ""
           /\ call.fn = "is_dirty" => (call.out.success <=> StatusText(call.work) # "")
           /\ call.fn = "is_clean" => (call.out.success <=> StatusText(call.work) = "")

C28_Witness ==
    /\ call.step = "called"
    /\ call.fn = "is_clean"
    /\ call.work = "untracked"
    /\ ~call.out.success
    /\ call.out.stdout.text = "?? c"

\* C29: graft returns with dst holding exactly the entries of src whose
\* relative path exists under layout and whose name matches no ignore
\* pattern (nor does the name of a directory it lies in, which is then not
\* copied at all).
C29_Graft ==
    call.step = "done"
        => /\ call.out = "returned"
           /\ call.dst = {path \in call.src :
                             /\ path \in call.layout
                             /\ \A k \in 1..Len(path) :
                                   ~is_ignored(path[k], call.patterns)}

\* C30: drift renders once, at the recorded ref, and once the render has
\* succeeded it goes on to graft and compare and ends in a successful
\* Result.
C30_Drift ==
    op = "drift"
        => /\ Cardinality({i \in 1..Len(calls) : calls[i] = "render"}) <= 1
           /\ Rendered => loc.current.commit = ResolveRef(start.record.ref, tmplLatest)
           /\ (pc = "done" /\ Len(loc.renders) = 1)
                 => /\ Called("graft")
                    /\ Returned
                    /\ result.success

\* C31: the same two trees compared under two pairs of root directories
\* give the same Diff content, and the content of each comparison contains
\* neither of its root paths.
C31_PathIndependence ==
    call.step = "done"
        => /\ call.content[1] = call.content[2]
           /\ \A k \in 1..2 :
                 /\ ~Contains(call.content[k], call.first[k])
                 /\ ~Contains(call.content[k], call.second[k])

\* C32: no file whose name matches a pattern of options.ignore is in the
\* output of compare or of compare_files, and both outputs name the same
\* files.
C32_IgnoredNeverCompared ==
    call.step = "done"
        => /\ \A e \in call.diff : ~is_ignored(e.file, call.ignore)
           /\ \A e \in call.diff_files : ~is_ignored(e.file, call.ignore)
           /\ {e.file : e \in call.diff} = {e.file : e \in call.diff_files}

\* C33: sync's dirty check takes no lock and leaves no trace: while one
\* sync is between its clean check and its apply_patch and no patch has
\* been applied yet, the other sync's dirty check finds the tree clean as
\* well, and every sync that invokes apply_patch has seen a clean tree.
\* The witness is the interleaving in which both syncs saw the clean tree
\* before either patched and both have invoked apply_patch.
C33_NoExclusion ==
    call.step = "race"
        => \A p \in Procs, q \in Procs :
              /\ call.procs[p].applied => call.procs[p].dirty = "clean"
              /\ ( /\ p # q
                   /\ call.procs[p].pc \in {"status", "diff", "apply"}
                   /\ call.procs[p].dirty = "clean"
                   /\ call.procs[q].pc = "is_dirty"
                   /\ \A r \in Procs : ~call.procs[r].applied )
                 => ~is_dirty(call.work).success

C33_Witness ==
    /\ call.step = "race"
    /\ \A p \in Procs :
          /\ call.procs[p].dirty = "clean"
          /\ call.procs[p].early
          /\ call.procs[p].applied

\* The characters of s before its first line break.
FirstLine(s) ==
    SubSeq(s, 1, IF \E i \in 1..Len(s) : s[i] = "\n"
                 THEN (CHOOSE i \in 1..Len(s) :
                          s[i] = "\n" /\ \A j \in 1..(i - 1) : s[j] # "\n") - 1
                 ELSE Len(s))

\* C34: with n >= len(suffix), subject_line(s, n, suffix) has at most n
\* characters and no line break; it is the first line of s when that has
\* at most n characters, and otherwise the first n - len(suffix)
\* characters of s followed by suffix.
C34_SubjectLine ==
    (call.step = "done" /\ call.n >= Len(call.suffix))
        => /\ Len(call.out) <= call.n
           /\ \A i \in 1..Len(call.out) : call.out[i] # "\n"
           /\ IF Len(FirstLine(call.s)) <= call.n
              THEN call.out = FirstLine(call.s)
              ELSE call.out = SubSeq(call.s, 1, call.n - Len(call.suffix)) \o call.suffix

C34_Witness ==
    /\ call.step = "done"
    /\ call.n > Len(call.suffix)
    /\ call.suffix # <<>>
    /\ Len(FirstLine(call.s)) > call.n
    /\ Len(FirstLine(call.s)) < Len(call.s)
    /\ Len(call.out) = call.n

\* C35: sync has returned its 'sync successful' Result only when
\* apply_patch was invoked and both its commands succeeded, the commit
\* being made; when apply_patch failed (a conflict, a rejected patch, a
\* failed commit) sync's outcome is not a successful Result.
C35_SuccessOnlyIfPatched ==
    (op = "sync" /\ pc = "done")
        => /\ (Returned /\ result.success /\ result.stdout.tag = "synced")
                 => /\ Patched
                    /\ loc.patch = "committed"
                    /\ projCommits = start.commits + 1
           /\ loc.patch \in {"conflict", "rejected", "commit_failed"}
                 => ~(Returned /\ result.success)

C35_Witness ==
    /\ op = "sync"
    /\ pc = "done"
    /\ Patched
    /\ loc.patch = "commit_failed"
    /\ result.kind = "raised"

\* C36: sync converges.  After a sync that applied and committed a patch
\* toward the template's latest commit and returned success, with the
\* template unchanged, a status run next returns a successful Result, and
\* a sync run next returns success without applying a patch or creating a
\* commit.
C36_SyncConverges ==
    (prev = "sync" /\ Returned)
        => /\ op = "status" => result.success
           /\ op = "sync" => /\ result.success
                             /\ ~Patched
                             /\ projCommits = start.commits

\* C37: after an init or a link that succeeded against the template's
\* latest commit, with the template unchanged, the status run next finds
\* the recorded ref to be the commit id of its clone and equal to the
\* remote's latest, and returns a successful Result; it ends otherwise
\* only when its clone command itself failed.
C37_StatusAfterInitOrLink ==
    (prev \in {"init", "link"} /\ op = "status" /\ pc = "done")
        => /\ Called("status")
                 => /\ loc.state.ref = record.ref
                    /\ loc.status.local_ref = record.ref
                    /\ same(loc.status)
                    /\ Returned
                    /\ result.success
           /\ ~Called("status")
                 => result.kind = "raised" /\ result.error = "ErrorReturnCode"

C37_Witness ==
    /\ prev = "link"
    /\ op = "status"
    /\ Returned
    /\ result.success
    /\ tmplLatest = 2
    /\ loc.status.local_ref = 2

\* C38: status, diff and sync hand the two rendered trees to the
\* comparator in the same order, the render at the recorded ref first and
\* the render at the target (or latest) ref second, so that a file the
\* target has and the recorded ref lacks is reported as added by each.
C38_SameOrder ==
    (op \in {"status", "diff", "sync"} /\ Compared)
        => /\ loc.compared = <<loc.current.commit, loc.target.commit>>
           /\ \A x \in loc.files :
                 x.kind = ChangeKind(loc.renders[1].tree[x.file],
                                     loc.renders[2].tree[x.file])

\* C39: once sync has run its up-to-date test, the outcome of the test is
\* that of comparing the recorded commit with the template remote's
\* latest, whatever target ref was requested.  When they are equal sync
\* has returned success with no render, no comparison, no patch and no
\* commit; when they differ sync has gone on toward the requested target:
\* it ends only by an exception of one of its steps or with the patch from
\* the recorded commit to the requested target handed to apply_patch.
C39_ShortCircuit ==
    (op = "sync" /\ Called("status"))
        => /\ loc.status = Status(ResolveRef(loc.state.ref, tmplLatest), tmplLatest)
           /\ ResolveRef(loc.state.ref, tmplLatest) = tmplLatest
                 => /\ Returned
                    /\ result.success
                    /\ result.stdout.tag = "status"
                    /\ ~Rendered
                    /\ ~Compared
                    /\ ~Patched
                    /\ projCommits = start.commits
           /\ ResolveRef(loc.state.ref, tmplLatest) # tmplLatest
                 => /\ pc = "done"
                         => \/ result.kind = "raised"
                            \/ Returned /\ result.success /\ Patched
                    /\ Called("clone") /\ pc \notin {"clone_target", "done"}
                         => loc.target.commit = ResolveRef(loc.ref, tmplLatest)
                    /\ Patched
                         => /\ Rendered
                            /\ loc.compared = <<ResolveRef(loc.state.ref, tmplLatest),
                                                ResolveRef(loc.ref, tmplLatest)>>

C39_Witness ==
    /\ op = "sync"
    /\ Called("status")
    /\ loc.state.ref = tmplLatest
    /\ loc.ref \in Commits
    /\ loc.ref # tmplLatest
    /\ Returned
    /\ result.success

====
